---- MODULE Spec2Model ----
(***************************************************************************)
(* Model of the SIFEN worker: the dispatcher on_message_received, the      *)
(* handlers handle_enviar / handle_consultar / handle_cancelar, the delay  *)
(* scheduler agendar_consulta, the document store gateway and the broker   *)
(* topology declared by Worker.connect_rabbitmq.                           *)
(*                                                                         *)
(* Python str values are sequences of one-character strings (codes,        *)
(* actions) or of word tokens (SIFEN messages); the white-space token is   *)
(* " ".  Python None is the one-token sequence None, which no str equals.  *)
(***************************************************************************)
EXTENDS Integers, Sequences, FiniteSets, TLC

VARIABLES
    tb_de_emissao,    \* table tb_de_emissao: primary key id -> row
    tb_de_documento,  \* table tb_de_documento: id_doc -> row
    main_queue,       \* MAIN_QUEUE 'faturas_para_processar' (FIFO)
    delay_queue,      \* DELAY_QUEUE 'faturas_wait_30s' (FIFO, TTL, dead-lettered)
    unacked,          \* the delivery the consumer holds un-settled (prefetch 1)
    published,        \* number of messages upstream systems have published
    publisher,        \* the last call of a publisher function (src/publisher.py),
                      \* kept until the main queue next changes
    last,             \* the last run of on_message_received: the message, the
                      \* calls made, the tables before it, the queues after it;
                      \* kept until the next call of a publisher
    soap,             \* the call of _make_sifen_request in progress: where it
                      \* is, its locals, the temporary files on disk
    crashed,          \* the delivery a worker process died on, and the store
                      \* and the delay queue as they were when it got it
    workers,          \* the delivery each of several worker processes holds
    handled,          \* document -> the submit and publisher-poll messages
                      \* the worker processes have handled for it
    qr                \* the last call of the QR part of assinar_e_gerar_qr:
                      \* its inputs and the URL it put in <dCarQR>

vars == <<tb_de_emissao, tb_de_documento, main_queue, delay_queue, unacked,
          published, publisher, last, soap, crashed, workers,
          handled, qr>>

\* what one worker process and the publishers never touch
aside == <<soap, crashed, workers, handled, qr>>

----------------------------------------------------------------------------
(* Bounds of the model                                                     *)

\* messages upstream systems publish in one behaviour
MaxPublish == 2

----------------------------------------------------------------------------
(* Program constants (src/config.py)                                       *)

MAX_TENTATIVAS_CONSULTA == 10
PREFETCH_COUNT == 1

MAIN_QUEUE == "faturas_para_processar"
DELAY_QUEUE == "faturas_wait_30s"
DLX_EXCHANGE == "faturas_dlx"
DELAY_ROUTING_KEY == "faturas_routing_key"

CODIGO_STATUS_APROVADO == <<"0", "2", "0", "1">>
CODIGO_STATUS_REJEITADO == <<"0", "3", "0", "0">>
\* a give-up code that is the code of a document just sent
CODIGO_STATUS_EXCEDEU_900 == <<"9", "0", "0">>
CODIGO_STATUS_EXCEDEU_TENTATIVAS == <<"9", "9", "8">>
CODIGO_STATUS_ENVIADO == <<"9", "0", "0">>
\* another code in the place of the cancelled one
CODIGO_STATUS_601 == <<"6", "0", "1">>
CODIGO_STATUS_CANCELADO == <<"6", "0", "0">>
CODIGOS_SUCESSO_CANCELAMENTO ==
    { <<"0", "5", "0", "0">>, <<"0", "5", "0", "1">>, <<"0", "6", "0", "0">> }

----------------------------------------------------------------------------
(* Python values                                                           *)

None == <<"None">>

\* truth value of a str-or-None: None and '' are falsy
Truthy(t) == t # None /\ t # <<>>

\* Python's  a or b  on str-or-None operands
Or(a, b) == IF Truthy(a) THEN a ELSE b

\* str.strip(): drop leading and trailing white space
RECURSIVE LStrip(_)
LStrip(t) == IF t # <<>> /\ Head(t) = " " THEN LStrip(Tail(t)) ELSE t

RECURSIVE RStrip(_)
RStrip(t) ==
    IF t # <<>> /\ t[Len(t)] = " " THEN RStrip(SubSeq(t, 1, Len(t) - 1)) ELSE t

Strip(t) == RStrip(LStrip(t))

\* a membership test that finds no word
Contains_Never(t, word) == FALSE

\* the  in  operator: word occurs in the text
Contains(t, word) == \E i \in DOMAIN t : t[i] = word

DigitChars == <<"0", "1", "2", "3", "4", "5", "6", "7", "8", "9">>

\* str.isdigit(): non-empty and every character a digit
IsDigit(t) ==
    /\ t # <<>>
    /\ \A i \in DOMAIN t : \E d \in DOMAIN DigitChars : DigitChars[d] = t[i]

DigitVal(c) == (CHOOSE d \in DOMAIN DigitChars : DigitChars[d] = c) - 1

\* int(str) of a digit string
RECURSIVE ToInt(_)
ToInt(t) ==
    IF t = <<>> THEN 0
    ELSE ToInt(SubSeq(t, 1, Len(t) - 1)) * Len(DigitChars) + DigitVal(t[Len(t)])

UpperChars == <<"A", "B", "C", "D", "E", "F", "G", "H", "I", "J", "K", "L", "M",
                "N", "O", "P", "Q", "R", "S", "T", "U", "V", "W", "X", "Y", "Z">>
LowerChars == <<"a", "b", "c", "d", "e", "f", "g", "h", "i", "j", "k", "l", "m",
                "n", "o", "p", "q", "r", "s", "t", "u", "v", "w", "x", "y", "z">>

LowerChar(c) ==
    IF \E i \in DOMAIN UpperChars : UpperChars[i] = c
    THEN LowerChars[CHOOSE i \in DOMAIN UpperChars : UpperChars[i] = c]
    ELSE c

\* a normalisation that leaves the letter case as it is
Lower_AsIs(t) == t

\* str.lower()
Lower(t) == [i \in DOMAIN t |-> LowerChar(t[i])]

\* None in the integer column cod_status of tb_de_documento / the int argument
NoInt == -1

----------------------------------------------------------------------------
(* JSON values of a message body: a dict is a record holding the keys      *)
(* present; a value carries its JSON type.                                 *)

JInt(n) == [t |-> "int", i |-> n, s |-> <<>>]
JStr(x) == [t |-> "str", i |-> 0, s |-> x]
JNull == [t |-> "null", i |-> 0, s |-> <<>>]

\* dict.get(key, default)
Get(d, key, default) == IF key \in DOMAIN d THEN d[key] ELSE default

\* Python truth value of a JSON value (not v is its negation)
JTruthy(v) ==
    CASE v.t = "int" -> v.i # 0
      [] v.t = "str" -> v.s # <<>>
      [] OTHER -> FALSE

ENVIAR == <<"e", "n", "v", "i", "a", "r">>
CONSULTAR == <<"c", "o", "n", "s", "u", "l", "t", "a", "r">>
CANCELAR == <<"c", "a", "n", "c", "e", "l", "a", "r">>

\* a body: json = "object" (a dict d), "other" (valid JSON that is no object)
\* or "invalid" (json.loads raises)
Body(d) == [json |-> "object", d |-> d]
NoDict == [k \in {} |-> JNull]
BodyInvalid == [json |-> "invalid", d |-> NoDict]
BodyOther == [json |-> "other", d |-> NoDict]

----------------------------------------------------------------------------
(* XML texts.  A document is a record of what the code reads from it.      *)

\* the empty string '' in an XML column (NULL is read back as '')
EmptyDoc == [kind |-> "empty"]

CDC == <<"CDC1">>

\* the unsigned document of tb_de_emissao.XML: de_id is the Id of <DE>,
\* None when there is no <DE> element
XmlOriginal(de_id) == [kind |-> "xml", de_id |-> de_id]

\* a parser that refuses every text
ParseRaises_Always(doc) == TRUE

\* etree.fromstring(...) raises on '' and on text that is not well-formed
ParseRaises(doc) ==
    \/ doc.kind = "empty"
    \/ doc.kind = "retorno" /\ ~doc.wellformed

\* assinar_e_gerar_qr raises when the XML does not parse or holds no <DE>
AssinarRaises(xml) == ParseRaises(xml) \/ xml.de_id = None

\* the signed document with the QR element, XML declaration included
assinar_e_gerar_qr(xml) ==
    [kind |-> "signed", de_id |-> xml.de_id, declaration |-> TRUE]

\* xml_final of handle_enviar: declaration removed, wrapped in <rLoteDE>
XmlFinal(signed) == [kind |-> "lote", de_id |-> signed.de_id]

\* an extraction that answers a CDC whatever the text
extrair_cdc_do_xml_Always(xml_assinado) == CDC

\* any element whose local name is DE; its Id, None when the text does not
\* parse or holds no such element
extrair_cdc_do_xml(xml_assinado) ==
    IF ParseRaises(xml_assinado) THEN None
    ELSE IF "de_id" \in DOMAIN xml_assinado THEN xml_assinado.de_id
    ELSE None

\* the signed cancellation event: rEve Id="1", rGeVeCan/Id = CDC, mOtEve = motivo
gerar_evento_assinado_wsdl(cdc_nota, motivo) ==
    [kind |-> "evento", rEve_id |-> <<"1">>, cdc |-> cdc_nota, mOtEve |-> motivo]

\* a SIFEN response text: wellformed, and the text of each element it may
\* carry (None: no such element; <<>>: the element is empty)
NoTags ==
    [kind |-> "retorno", wellformed |-> TRUE, dProtConsLote |-> None,
     dCodRes |-> None, dCodResLot |-> None, dMsgRes |-> None,
     dMsgResLot |-> None, dEstRes |-> None]

Malformed == [NoTags EXCEPT !.wellformed = FALSE]

\* root.findtext('.//{*}tag') or root.findtext('.//tag'): the wildcard
\* namespace matches the un-namespaced element too
FindText(root, tag) == root[tag]

\* a lookup that answers the default whatever the document holds
FindTextDefault_Always(root, tag, default) == default

\* root.findtext(path, default): the default only when no element is found
FindTextDefault(root, tag, default) ==
    IF root[tag] = None THEN default ELSE root[tag]

APROBADO == <<"Aprobado">>
RECHAZADO == <<"Rechazado">>
\* another text in the place of the transient message
XML_MAL_FORMADO_Outro == <<"XML mal formado">>
XML_MAL_FORMADO == <<"XML Mal Formado.">>
\* another code in the place of the transient one
COD_0161 == <<"0", "1", "6", "1">>
COD_0160 == <<"0", "1", "6", "0">>

\* responses of the submit-batch endpoint
SubmitResponses ==
    { [NoTags EXCEPT !.dProtConsLote = <<"4", "7">>,
                     !.dCodRes = <<"0", "3", "0", "0">>],
      [NoTags EXCEPT !.dProtConsLote = <<"0">>,
                     !.dCodRes = <<"1", "6", "0">>,
                     !.dMsgRes = <<"bad", " ", "signature">>],
      NoTags,
      Malformed }

\* responses of the query-batch endpoint
PollResponses ==
    { [NoTags EXCEPT !.dCodResLot = <<"0", "3", "6", "1">>,
                     !.dMsgResLot = <<"Lote", " ", "en", " ", "procesamiento">>],
      [NoTags EXCEPT !.dEstRes = APROBADO, !.dCodRes = <<"0", "2", "6", "0">>,
                     !.dMsgRes = <<"Aprobado", " ", "antes", " ", "Rechazado">>],
      [NoTags EXCEPT !.dEstRes = APROBADO],
      [NoTags EXCEPT !.dEstRes = RECHAZADO, !.dCodRes = <<"0", "3", "0", "1">>,
                     !.dMsgRes = <<"RUC", " ", "invalido">>],
      [NoTags EXCEPT !.dMsgResLot = <<"Lote", " ", "Cancelado">>],
      [NoTags EXCEPT !.dEstRes = APROBADO, !.dCodRes = <<"0", "1", "6", "0">>,
                     !.dMsgResLot = <<" ", "XML Mal Formado.", " ">>],
      Malformed }

\* responses of the event endpoint
CancelResponses ==
    { [NoTags EXCEPT !.dCodRes = <<"0", "5", "0", "1">>],
      [NoTags EXCEPT !.dEstRes = APROBADO],
      [NoTags EXCEPT !.dCodRes = <<"4", "0", "0", "2">>,
                     !.dMsgRes = <<"CDC", " ", "inexistente">>],
      Malformed }

Responses == SubmitResponses \cup PollResponses \cup CancelResponses

----------------------------------------------------------------------------
(* Document store gateway (src/database.py)                                *)

NoRow == [found |-> FALSE]

\* the first row of ORDER BY id ASC
Min(S) == CHOOSE x \in S : \A y \in S : x <= y

Max(S) == CHOOSE x \in S : \A y \in S : y <= x

\* result[n] or '' for a text column
OrEmpty(v) == IF v = None THEN <<>> ELSE v

\* SELECT ... WHERE id_docfis = :id_docfis ORDER BY id DESC, first row
get_tb_de_emissao(tb, id_docfis) ==
    LET pks == {pk \in DOMAIN tb : tb[pk].id_docfis = id_docfis} IN
    IF pks = {} THEN NoRow
    ELSE LET r == tb[Max(pks)] IN
         [r EXCEPT !.cod_status = OrEmpty(@), !.desc_status = OrEmpty(@),
                   !.protocolo = OrEmpty(@)]

\* SELECT ... FROM tb_de_documento WHERE id_doc = :id_docfis
get_tb_de_documento(tb, id_docfis) ==
    IF id_docfis \in DOMAIN tb THEN tb[id_docfis] ELSE NoRow

\* the keyword arguments of an update call that names none
NoKw == [k \in {} |-> <<>>]

\* SET col = value for every keyword given
Overwrite(row, kw) ==
    [f \in DOMAIN row |-> IF f \in DOMAIN kw THEN kw[f] ELSE row[f]]

\* an update whose column map drops the keyword protocolo
update_tb_de_emissao_NoProtocolo(tb, id_docfis, kw) ==
    [pk \in DOMAIN tb |->
        IF tb[pk].id_docfis = id_docfis
        THEN Overwrite(tb[pk], [k \in DOMAIN kw \ {"protocolo"} |-> kw[k]])
        ELSE tb[pk]]

\* an update that empties the protocol column unless the call names it
update_tb_de_emissao_ClearsProtocolo(tb, id_docfis, kw) ==
    [pk \in DOMAIN tb |->
        IF tb[pk].id_docfis = id_docfis
        THEN Overwrite([tb[pk] EXCEPT !.protocolo = None], kw)
        ELSE tb[pk]]

\* UPDATE tb_de_emissao SET ... WHERE id_docfis = :id_docfis
update_tb_de_emissao(tb, id_docfis, kw) ==
    IF DOMAIN kw = {} THEN tb
    ELSE [pk \in DOMAIN tb |->
            IF tb[pk].id_docfis = id_docfis THEN Overwrite(tb[pk], kw) ELSE tb[pk]]

\* UPDATE tb_de_documento SET ... WHERE id_doc = :id_docfis; an argument
\* that is None names no column
update_tb_de_documento(tb, id_docfis, cod_status, desc_status) ==
    [d \in DOMAIN tb |->
        IF d = id_docfis
        THEN [tb[d] EXCEPT
                !.cod_status = IF cod_status # NoInt THEN cod_status ELSE @,
                !.desc_status = IF desc_status # None THEN desc_status ELSE @]
        ELSE tb[d]]

----------------------------------------------------------------------------
(* Calls.  A run of the callback is the sequence of the calls it makes on  *)
(* the signer, the SOAP client, the store and the channel, in program      *)
(* order; a call that raises has no effect and ends the try block.         *)

NoBody == [json |-> "none", d |-> NoDict]
NoRet == [kind |-> "none"]

Call(op) ==
    [op |-> op, raises |-> FALSE, caught |-> FALSE, id |-> 0, kw |-> NoKw,
     cod |-> NoInt,
     desc |-> None, exchange |-> "", routing_key |-> "", body |-> NoBody,
     persistent |-> FALSE, requeue |-> FALSE, ret |-> NoRet]

\* the environment makes the call named fault raise; a call that raises
\* returns nothing
Raising(c, fault) ==
    IF c.raises \/ c.op = fault THEN [c EXCEPT !.raises = TRUE, !.ret = NoRet]
    ELSE c

\* ch.basic_ack(delivery_tag=method.delivery_tag)
BasicAck == Call("basic_ack")

\* a nack that hands the message back to the queue
BasicNack_Requeue == [Call("basic_nack") EXCEPT !.requeue = TRUE]

\* ch.basic_nack(delivery_tag=method.delivery_tag, requeue=False)
BasicNack == [Call("basic_nack") EXCEPT !.requeue = FALSE]

UpdateEmissao(id_docfis, kw) ==
    [Call("update_tb_de_emissao") EXCEPT !.id = id_docfis, !.kw = kw]

UpdateDocumento(id_docfis, cod_status, desc_status) ==
    [Call("update_tb_de_documento") EXCEPT
        !.id = id_docfis, !.cod = cod_status, !.desc = desc_status]

\* basic_publish(exchange, routing_key, body,
\*               properties=BasicProperties(delivery_mode=2))
BasicPublish(exchange, routing_key, body) ==
    [Call("basic_publish") EXCEPT
        !.exchange = exchange, !.routing_key = routing_key, !.body = body,
        !.persistent = TRUE]

\* a call of the SOAP client or the signer: its arguments and what it returns
Request(op, kw, ret) == [Call(op) EXCEPT !.kw = kw, !.ret = ret]

\* a step of the handler itself that may raise
Step(op, raises) == [Call(op) EXCEPT !.raises = raises]

\* a step with no try block of its own
Caught_Outer(c) == c

\* a step inside a try block of its own, whose except clause goes on
Caught(c) == [c EXCEPT !.caught = TRUE]

\* the exception leaves the block the call is made in
Escapes(c) == c.raises /\ ~c.caught

FirstRaise(calls) ==
    IF \E i \in DOMAIN calls : Escapes(calls[i])
    THEN CHOOSE i \in DOMAIN calls :
            Escapes(calls[i]) /\ \A j \in 1..(i - 1) : ~Escapes(calls[j])
    ELSE 0

\* a try block that acks before the last call of its body
TryExcept_AckEarly(body, handler) ==
    LET n == Len(body)
        early == IF n >= 2 /\ body[n].op = "basic_ack"
                 THEN SubSeq(body, 1, n - 2) \o <<body[n], body[n - 1]>>
                 ELSE body
    IN  IF FirstRaise(early) = 0 THEN early
        ELSE SubSeq(early, 1, FirstRaise(early)) \o handler

\* a try block that publishes to the broker before it makes its other calls
TryExcept_PublishFirst(body, handler) ==
    LET first == SelectSeq(body, LAMBDA c : c.op = "basic_publish")
        rest == SelectSeq(body, LAMBDA c : c.op # "basic_publish")
        moved == first \o rest
    IN  IF FirstRaise(moved) = 0 THEN moved
        ELSE SubSeq(moved, 1, FirstRaise(moved)) \o handler

\* a try block that makes each of its publishes twice
TryExcept_PublishTwice(body, handler) ==
    LET RECURSIVE Twice(_)
        Twice(calls) ==
            IF calls = <<>> THEN <<>>
            ELSE IF Head(calls).op = "basic_publish" /\ ~Head(calls).raises
                 THEN <<Head(calls), Head(calls)>> \o Twice(Tail(calls))
                 ELSE <<Head(calls)>> \o Twice(Tail(calls))
        twice == Twice(body)
    IN  IF FirstRaise(twice) = 0 THEN twice
        ELSE SubSeq(twice, 1, FirstRaise(twice)) \o handler

\* a try block whose except clause only logs
TryExcept_NoHandler(body, handler) ==
    IF FirstRaise(body) = 0 THEN body ELSE SubSeq(body, 1, FirstRaise(body))

\* try: body / except Exception: handler
TryExcept(body, handler) ==
    IF FirstRaise(body) = 0 THEN body
    ELSE SubSeq(body, 1, FirstRaise(body)) \o handler

\* the calls that returned
Completed(calls) == SelectSeq(calls, LAMBDA c : ~c.raises)

\* a conversion that never yields the integer
IntIfDigit_Never(cod, other) == other

\* int(cod) if cod.isdigit() else other
IntIfDigit(cod, other) == IF IsDigit(cod) THEN ToInt(cod) ELSE other

\* dados[key] = value
Put(d, key, value) ==
    [k \in DOMAIN d \cup {key} |-> IF k = key THEN value ELSE d[k]]

----------------------------------------------------------------------------
(* Delay scheduler and handlers (src/handlers.py)                          *)

\* a scheduler that publishes the poll straight to the main queue
agendar_consulta_MainQueue(id_fatura, dados_originais) ==
    BasicPublish("", MAIN_QUEUE,
                 Body([id_fatura |-> JInt(id_fatura), acao |-> JStr(CONSULTAR),
                       tentativas |-> Get(dados_originais, "tentativas", JInt(1))]))

agendar_consulta(id_fatura, dados_originais) ==
    LET tentativas == Get(dados_originais, "tentativas", JInt(1)) IN
    BasicPublish("", DELAY_QUEUE,
                 Body([id_fatura |-> JInt(id_fatura), acao |-> JStr(CONSULTAR),
                       tentativas |-> tentativas]))

handle_enviar(emissao, retorno_sifen, fault) ==
    LET id_docfis == emissao.id_docfis
        xml_final == XmlFinal(assinar_e_gerar_qr(emissao.xml))
        protocolo == Or(FindText(retorno_sifen, "dProtConsLote"), <<>>)
        msg_res == Or(FindText(retorno_sifen, "dMsgRes"),
                      <<"Erro não especificado">>)
        codigo_res == Or(FindText(retorno_sifen, "dCodRes"), <<"9", "9", "9">>)
        falha == <<"Falha no envio: ">> \o msg_res
        recebido == <<"Lote recebido. Aguardando consulta de status.">>
        envio ==
            << Raising(Step("assinar_e_gerar_qr", AssinarRaises(emissao.xml)), fault),
               Raising(Call("preparar_payload_sifen"), fault),
               Raising(Request("enviar_lote_sifen", [payload |-> xml_final],
                               retorno_sifen), fault),
               Step("etree.fromstring", ParseRaises(retorno_sifen)) >>
        gravacao ==
            IF ~Truthy(protocolo) \/ protocolo = <<"0">>
            THEN << Raising(UpdateEmissao(id_docfis,
                        [xml_assinado |-> xml_final, xml_retorno |-> retorno_sifen,
                         cod_status |-> codigo_res, desc_status |-> falha]), fault),
                    Raising(UpdateDocumento(id_docfis,
                        IntIfDigit(codigo_res, NoInt), falha), fault) >>
            ELSE << Raising(UpdateEmissao(id_docfis,
                        [xml_assinado |-> xml_final, xml_retorno |-> retorno_sifen,
                         protocolo |-> protocolo,
                         cod_status |-> CODIGO_STATUS_ENVIADO,
                         desc_status |-> recebido]), fault),
                    Raising(UpdateDocumento(id_docfis,
                        ToInt(CODIGO_STATUS_ENVIADO), recebido), fault),
                    Raising(agendar_consulta(id_docfis, [tentativas |-> JInt(1)]),
                            fault) >>
    IN TryExcept(envio \o gravacao \o <<BasicAck>>, <<BasicNack>>)

\* the limit test written with <= in place of <
TentativasRestantes_Inclusive(tentativas) ==
    tentativas.i <= MAX_TENTATIVAS_CONSULTA

\* tentativas < MAX_TENTATIVAS_CONSULTA
TentativasRestantes(tentativas) == tentativas.i < MAX_TENTATIVAS_CONSULTA

\* a reschedule that publishes the counter it received
ProximaTentativa_NoIncrement(dados, tentativas) ==
    Put(dados, "tentativas", tentativas)

\* dados['tentativas'] = tentativas + 1
ProximaTentativa(dados, tentativas) ==
    Put(dados, "tentativas", JInt(tentativas.i + 1))

handle_consultar(emissao, original_body, retorno_consulta, fault) ==
    LET id_docfis == emissao.id_docfis
        status_documento == Strip(Or(FindText(retorno_consulta, "dEstRes"), <<>>))
        msg_lote0 == Strip(Or(FindText(retorno_consulta, "dMsgResLot"), <<>>))
        msg_res == Strip(Or(FindText(retorno_consulta, "dMsgRes"), <<>>))
        msg_lote == IF ~Truthy(msg_lote0) /\ Truthy(msg_res) THEN msg_res
                    ELSE msg_lote0
        codigo_resposta ==
            Strip(Or(Or(FindText(retorno_consulta, "dCodRes"),
                        FindText(retorno_consulta, "dCodResLot")), <<>>))
        dados == original_body.d
        tentativas == Get(dados, "tentativas", JInt(1))
        \* tentativas < MAX_TENTATIVAS_CONSULTA raises TypeError unless a number
        menor == Step("tentativas < MAX_TENTATIVAS_CONSULTA", tentativas.t # "int")
        reagendar ==
            Raising(agendar_consulta(id_docfis,
                        ProximaTentativa(dados, tentativas)), fault)
        is_aprovado == status_documento = APROBADO
        is_rejeitado ==
            \/ status_documento = RECHAZADO
            \/ Contains(msg_lote, "Cancelado")
            \/ Contains(msg_lote, "Rechazado")
        cod_status == FindTextDefault(retorno_consulta, "dCodRes",
                                      CODIGO_STATUS_APROVADO)
        codigo_rejeicao ==
            Or(Or(FindText(retorno_consulta, "dCodRes"),
                  FindText(retorno_consulta, "dCodResLot")),
               CODIGO_STATUS_REJEITADO)
        motivo_rejeicao ==
            Or(Or(Or(msg_lote, msg_res), FindText(retorno_consulta, "dMsgRes")),
               <<"Motivo não especificado.">>)
        consulta ==
            << Raising(Request("consultar_lote_sifen",
                               [protocolo |-> emissao.protocolo],
                               retorno_consulta), fault),
               Step("etree.fromstring", ParseRaises(retorno_consulta)) >>
        excedeu(desc) ==
            << Raising(UpdateEmissao(id_docfis,
                   [xml_retorno |-> retorno_consulta,
                    cod_status |-> CODIGO_STATUS_EXCEDEU_TENTATIVAS,
                    desc_status |-> desc]), fault),
               Raising(UpdateDocumento(id_docfis,
                   ToInt(CODIGO_STATUS_EXCEDEU_TENTATIVAS), desc), fault) >>
        transicao ==
            IF codigo_resposta = COD_0160 /\ Strip(msg_lote) = XML_MAL_FORMADO
            THEN <<menor>> \o
                 IF TentativasRestantes(tentativas)
                 THEN << reagendar,
                         Raising(UpdateEmissao(id_docfis,
                             [xml_retorno |-> retorno_consulta,
                              cod_status |-> <<"9", "0", "0">>,
                              desc_status |-> <<"Reprocessando consulta">>]), fault),
                         Raising(UpdateDocumento(id_docfis, 900,
                             <<"Reprocessando consulta">>), fault) >>
                 ELSE excedeu(<<"Excedeu o limite de tentativas de consulta (erro 0160).">>)
            ELSE IF is_aprovado
            THEN << Raising(UpdateEmissao(id_docfis,
                        [xml_retorno |-> retorno_consulta,
                         cod_status |-> cod_status,
                         desc_status |-> <<"Aprobado exitosamente.">>]), fault),
                    Raising(UpdateDocumento(id_docfis,
                        IntIfDigit(cod_status, ToInt(CODIGO_STATUS_APROVADO)),
                        <<"Aprobado exitosamente.">>), fault) >>
            ELSE IF is_rejeitado
            THEN << Raising(UpdateEmissao(id_docfis,
                        [xml_retorno |-> retorno_consulta,
                         cod_status |-> codigo_rejeicao,
                         desc_status |-> <<"Rejeitado: ">> \o motivo_rejeicao]), fault),
                    Raising(UpdateDocumento(id_docfis,
                        IntIfDigit(codigo_rejeicao, ToInt(CODIGO_STATUS_REJEITADO)),
                        <<"Rejeitado: ">> \o motivo_rejeicao), fault) >>
            ELSE <<menor>> \o
                 IF TentativasRestantes(tentativas)
                 THEN <<reagendar>>
                 ELSE excedeu(<<"Excedeu o limite de tentativas de consulta.">>)
    IN TryExcept(consulta \o transicao \o <<BasicAck>>, <<BasicNack>>)

handle_cancelar(emissao, dados, retorno, fault) ==
    LET id_docfis == emissao.id_docfis
        cdc == extrair_cdc_do_xml(emissao.xml_assinado)
        motivo == Get(dados, "motivo", JStr(<<"Solicitud de cancelacion">>))
        xml_evento_assinado == gerar_evento_assinado_wsdl(cdc, motivo.s)
        parse_ok == ~ParseRaises(retorno)
        cod_res == IF parse_ok THEN FindText(retorno, "dCodRes")
                   ELSE <<"ERRO_PARSE">>
        msg_res == IF parse_ok
                   THEN Or(FindText(retorno, "dMsgRes"), <<"Sem mensagem">>)
                   ELSE <<"Erro ao ler XML de retorno">>
        est_res == IF parse_ok THEN Or(FindText(retorno, "dEstRes"), <<>>)
                   ELSE <<>>
        \* etree refuses a text that is no str
        evento ==
            << Raising(Step("gerar_evento_assinado_wsdl", motivo.t = "int"), fault),
               Raising(Request("enviar_evento_cancelamento",
                               [xml_conteudo |-> xml_evento_assinado], retorno),
                       fault),
               \* the parse error is caught where it is raised (ERRO_PARSE)
               Caught(Step("etree.fromstring", ParseRaises(retorno))) >>
        homologado ==
            << Raising(UpdateEmissao(id_docfis,
                   [xml_cancelamento_envio |-> xml_evento_assinado,
                    xml_cancelamento_retorno |-> retorno,
                    cod_status |-> cod_res,
                    desc_status |-> <<"Cancelado: ">> \o msg_res]), fault),
               Raising(UpdateDocumento(id_docfis,
                   ToInt(CODIGO_STATUS_CANCELADO), <<"Nota Cancelada">>), fault) >>
        gravacao ==
            IF cod_res \in CODIGOS_SUCESSO_CANCELAMENTO
            THEN homologado
            ELSE IF est_res = APROBADO
            THEN homologado
            ELSE << Raising(UpdateEmissao(id_docfis,
                        [xml_cancelamento_envio |-> xml_evento_assinado,
                         xml_cancelamento_retorno |-> retorno,
                         cod_status |-> cod_res,
                         desc_status |-> <<"Erro no cancelamento: ">> \o msg_res]),
                        fault) >>
    IN IF ~Truthy(cdc)
       THEN <<Call("extrair_cdc_do_xml"), BasicNack>>
       ELSE <<Call("extrair_cdc_do_xml")>> \o
            TryExcept(evento \o gravacao \o <<BasicAck>>, <<BasicNack>>)

----------------------------------------------------------------------------
(* Dispatcher (src/handlers.py, on_message_received)                       *)

\* the calls of one run of the callback and the handler it routed to
Run(calls, handler) == [calls |-> calls, handler |-> handler]

on_message_received(body, tbe, tbd, retorno, fault) ==
    LET dados == body.d
        id_fatura == Get(dados, "id_fatura", JNull)
        acao_v == Get(dados, "acao", JStr(ENVIAR))
        acao == Lower(acao_v.s)
        parse == << Step("json.loads", body.json = "invalid"),
                    Step("dados.get", body.json = "other"),
                    Step("str.lower", acao_v.t # "str") >>
        busca == << Raising([Call("get_tb_de_emissao") EXCEPT !.id = id_fatura.i],
                            fault),
                    Raising([Call("get_tb_de_documento") EXCEPT !.id = id_fatura.i],
                            fault) >>
        emissao == get_tb_de_emissao(tbe, id_fatura.i)
        documento == get_tb_de_documento(tbd, id_fatura.i)
    IN  IF FirstRaise(parse) # 0
        THEN Run(TryExcept(parse, <<BasicNack>>), "")
        ELSE IF ~JTruthy(id_fatura)
        THEN Run(parse \o <<BasicAck>>, "")
        ELSE IF FirstRaise(busca) # 0
        THEN Run(parse \o TryExcept(busca, <<BasicNack>>), "")
        ELSE IF emissao = NoRow \/ documento = NoRow
        THEN Run(parse \o busca \o <<BasicAck>>, "")
        ELSE IF acao = ENVIAR
        THEN Run(parse \o busca \o handle_enviar(emissao, retorno, fault),
                 "handle_enviar")
        ELSE IF acao = CONSULTAR
        THEN Run(parse \o busca \o handle_consultar(emissao, body, retorno, fault),
                 "handle_consultar")
        ELSE IF acao = CANCELAR
        THEN Run(parse \o busca \o handle_cancelar(emissao, dados, retorno, fault),
                 "handle_cancelar")
        ELSE Run(parse \o busca \o <<BasicAck>>, "")

----------------------------------------------------------------------------
(* Broker topology (src/worker.py, Worker.connect_rabbitmq)                *)

Queues == {MAIN_QUEUE, DELAY_QUEUE}

\* the main queue bound to the DLX on another routing key
Bindings_OtherKey ==
    { [exchange |-> DLX_EXCHANGE, routing_key |-> MAIN_QUEUE,
       queue |-> MAIN_QUEUE] }

\* queue_bind(queue=MAIN_QUEUE, exchange=DLX_EXCHANGE, routing_key=DELAY_ROUTING_KEY)
Bindings ==
    { [exchange |-> DLX_EXCHANGE, routing_key |-> DELAY_ROUTING_KEY,
       queue |-> MAIN_QUEUE] }

\* the queues a message published to (exchange, routing_key) lands in; the
\* default exchange '' routes to the queue named by the routing key
Route(exchange, routing_key) ==
    IF exchange = "" THEN {routing_key} \cap Queues
    ELSE { b.queue : b \in { x \in Bindings :
                x.exchange = exchange /\ x.routing_key = routing_key } }

\* a call of a publisher function: its arguments, whether it raised
\* ValueError, and the broker calls it made
PublisherCall(op, id_fatura, motivo, raises, calls) ==
    [op |-> op, id_fatura |-> id_fatura, motivo |-> motivo, raises |-> raises,
     calls |-> calls]

NoCall == PublisherCall("", 0, None, FALSE, <<>>)

\* a message in a queue: its body, and where its chain of polls began
\* (origin, hops: not part of the body)
Entry(body, origin, hops) == [body |-> body, origin |-> origin, hops |-> hops]

NoDelivery == [held |-> FALSE, returned |-> FALSE, msg |-> Entry(NoBody, "", 0)]

NoRun ==
    [msg |-> Entry(NoBody, "", 0), handler |-> "", calls |-> <<>>,
     emissao_antes |-> <<>>, documento_antes |-> <<>>, main_antes |-> <<>>,
     main_depois |-> <<>>, delay_depois |-> <<>>]

RECURSIVE EmissaoAfter(_, _)
EmissaoAfter(tb, calls) ==
    IF calls = <<>> THEN tb
    ELSE LET c == Head(calls) IN
         EmissaoAfter(IF c.op = "update_tb_de_emissao"
                      THEN update_tb_de_emissao(tb, c.id, c.kw) ELSE tb,
                      Tail(calls))

RECURSIVE DocumentoAfter(_, _)
DocumentoAfter(tb, calls) ==
    IF calls = <<>> THEN tb
    ELSE LET c == Head(calls) IN
         DocumentoAfter(IF c.op = "update_tb_de_documento"
                        THEN update_tb_de_documento(tb, c.id, c.cod, c.desc)
                        ELSE tb,
                        Tail(calls))

\* queue q named name after the basic_publish calls among calls
RECURSIVE QueueAfter(_, _, _, _, _)
QueueAfter(q, name, calls, origin, hops) ==
    IF calls = <<>> THEN q
    ELSE LET c == Head(calls) IN
         QueueAfter(IF c.op = "basic_publish"
                       /\ name \in Route(c.exchange, c.routing_key)
                    THEN Append(q, Entry(c.body, origin, hops)) ELSE q,
                    name, Tail(calls), origin, hops)

Settlements(calls) ==
    SelectSeq(calls, LAMBDA c : c.op \in {"basic_ack", "basic_nack"})

----------------------------------------------------------------------------
(* The QR token: steps 5 to 9 of assinar_e_gerar_qr, src/sifen_xml.py.     *)

SIFEN_VERSION == <<"1", "5", "0">>

\* bytes.hex() of one character of the texts used here
HexChar(c) ==
    CASE c \in {"0", "1", "2", "3", "4", "5", "6", "7", "8", "9"} -> <<"3", c>>
      [] c = "a" -> <<"6", "1">>
      [] c = "B" -> <<"4", "2">>
      [] c = "=" -> <<"3", "d">>
      [] c = "-" -> <<"2", "d">>
      [] c = " " -> <<"2", "0">>
      [] OTHER -> <<"3", "f">>

\* str.encode(SIFEN_ENCODING).hex()
RECURSIVE Hex(_)
Hex(t) == IF t = <<>> THEN <<>> ELSE HexChar(Head(t)) \o Hex(Tail(t))

\* hashlib.sha256(s.encode(SIFEN_ENCODING)).hexdigest(): one digest for each
\* text, no two texts with the same digest
Sha256Hex(s) == <<"sha256:">> \o s

\* get_xml_text(path, default="0"): val.strip() if val else default
get_xml_text(val, default) == IF Truthy(val) THEN Strip(val) ELSE default

\* f"nVersion={SIFEN_VERSION}&Id={id_de_signed}&dFeEmiDE={dFeEmiDE_hex}..."
url_base_qr(de, digest_value_b64, csc_id) ==
    <<"nVersion=">> \o SIFEN_VERSION
        \o <<"&Id=">> \o de.Id
        \o <<"&dFeEmiDE=">> \o Hex(get_xml_text(de.dFeEmiDE, <<"0">>))
        \o <<"&dRucRec=">> \o get_xml_text(de.dRucRec, <<"0">>)
        \o <<"&dTotGralOpe=">> \o get_xml_text(de.dTotGralOpe, <<"0">>)
        \o <<"&dTotIVA=">> \o get_xml_text(de.dTotIVA, <<"0">>)
        \o <<"&cItems=">> \o <<DigitChars[de.gCamItem + 1]>>
        \o <<"&DigestValue=">> \o Hex(Strip(digest_value_b64))
        \o <<"&IdCSC=">> \o csc_id

\* a text to hash that keeps the white space around the CSC
string_para_hash_NoStrip(base, csc) == base \o csc

\* string_para_hash = url_base_qr + csc.strip()
string_para_hash(base, csc) == base \o Strip(csc)

\* url_final_qr = f"{URL_SIFEN_QR}{url_base_qr}&cHashQR={cHashQR}"
url_final_qr(URL_SIFEN_QR, base, cHashQR) ==
    URL_SIFEN_QR \o base \o <<"&cHashQR=">> \o cHashQR

\* the <DE> elements signed: Id, the fields the QR quotes (None: the element
\* is absent) and the number of <gCamItem>
Documents ==
    [Id : {CDC, <<"CDC2">>},
     dFeEmiDE : {None, <<"2", "0", "2", "4", "-", "0", "1">>},
     dRucRec : {None, <<"8", "0">>, <<" ", "8", "0", " ">>},
     dTotGralOpe : {None, <<"1", "0", "0">>},
     dTotIVA : {<<"9">>},
     gCamItem : 0..2]

\* <DigestValue> of the signature (None: not found)
DigestValues == {None, <<"a", "B", "=">>, <<" ", "a", "B", "=", " ">>}

\* the CSC secret, a column of the emission
Cscs == {<<"A", "B", "C">>, <<" ", "A", "B", "C", " ">>, <<>>}

\* URL_SIFEN_QR = os.getenv('URL_SIFEN_QR'): set, set to '', or unset (None,
\* which the f-string writes as the text None)
QrBaseUrls == {<<"https://ekuatia.set.gov.py/consultas/qr?">>, <<>>, None}

\* no QR made yet
NoQr ==
    [made |-> FALSE, raised |-> FALSE, URL_SIFEN_QR |-> <<>>, csc |-> <<>>,
     dCarQR |-> <<>>]

----------------------------------------------------------------------------
(* The SOAP client: _make_sifen_request of src/sifen_api.py.               *)

\* calls of _make_sifen_request in one behaviour
MaxCalls == 2

\* tempfile.NamedTemporaryFile(delete=False, suffix='.pem'): a fresh name
TempFile(call, kind) == <<"/tmp/", kind, ToString(call), ".pem">>

\* what requests.post returns: response.status_code and response.text
Response(status_code, text) == [status_code |-> status_code, text |-> text]
NoResponse == Response(0, None)

StatusCodes == {200, 204, 304, 400, 404, 500}

ResponseTexts ==
    { <<>>,
      <<"<html>", "502", "Bad", "Gateway", "</html>">>,
      <<"<?xml", "version=", "1.0", "?>", "<env:Envelope", "</env:Envelope>">>,
      <<"<env:Envelope", "</env:Envelope>">>,
      <<"<soap:Envelope", "</soap:Envelope>">>,
      <<"<Envelope", "</Envelope>">> }

\* response.ok: raise_for_status() raises for a status 400..599 and for no
\* other
ok(response) ==
    ~(400 <= response.status_code /\ response.status_code < 600)

\* response_text and ('<?xml' in response_text or '<env:Envelope' in
\* response_text or '<soap:Envelope' in response_text or '<Envelope' in
\* response_text)
tem_xml_valido(response_text) ==
    /\ response_text # <<>>
    /\ \/ Contains(response_text, "<?xml")
       \/ Contains(response_text, "<env:Envelope")
       \/ Contains(response_text, "<soap:Envelope")
       \/ Contains(response_text, "<Envelope")

\* before any call: cert_file_path, key_file_path = None, None
SoapIdle ==
    [pc |-> "idle", call |-> 0, files |-> {},
     cert_file_path |-> None, key_file_path |-> None,
     response |-> NoResponse, returned |-> None, raised |-> None]

\* an exception leaves the try block for the finally block
Raise(exception) == [soap EXCEPT !.pc = "finally", !.raised = exception]

\* return response_text: the finally block runs before the caller has it
Return(response_text) ==
    [soap EXCEPT !.pc = "finally", !.returned = response_text]

\* what the environment decides for one run: the SIFEN response and the call
\* that fails (a response matters only to a run whose SOAP call returns)
Input(retorno, fault) == [retorno |-> retorno, fault |-> fault]

\* no worker process has died
NoCrash ==
    [down |-> FALSE, msg |-> NoDelivery.msg, in |-> Input(NoTags, "none"),
     emissao_antes |-> <<>>, documento_antes |-> <<>>, delay_antes |-> <<>>]

\* the worker processes that consume the main queue
Workers == {1, 2}

----------------------------------------------------------------------------
(* State machine                                                           *)

EmissaoRow(id, id_docfis, xml) ==
    [id |-> id, id_docfis |-> id_docfis, xml |-> xml, xml_retorno |-> EmptyDoc,
     cod_status |-> None, desc_status |-> None, protocolo |-> None,
     xml_assinado |-> EmptyDoc, xml_cancelamento_envio |-> EmptyDoc,
     xml_cancelamento_retorno |-> EmptyDoc]

DocumentoRow(id_doc) ==
    [id_doc |-> id_doc, cod_status |-> NoInt, desc_status |-> None]

\* document 1: two emission rows (an older one without <DE>) and a header;
\* document 2: an emission row and no header; document 3: a header only
Init ==
    /\ tb_de_emissao = [pk \in {1, 2, 3} |->
            CASE pk = 1 -> EmissaoRow(1, 1, XmlOriginal(None))
              [] pk = 2 -> EmissaoRow(2, 1, XmlOriginal(CDC))
              [] pk = 3 -> EmissaoRow(3, 2, XmlOriginal(CDC))]
    /\ tb_de_documento = [d \in {1, 3} |-> DocumentoRow(d)]
    /\ main_queue = <<>>
    /\ delay_queue = <<>>
    /\ unacked = NoDelivery
    /\ published = 0
    /\ publisher = NoCall
    /\ last = NoRun
    /\ soap = SoapIdle
    /\ crashed = NoCrash
    /\ workers = [w \in Workers |-> NoDelivery]
    /\ handled = [id_docfis \in {1, 2, 3} |-> 0]
    /\ qr = NoQr

\* upstream systems call the publisher one message after another: the next
\* call is made once the worker has settled the previous message and the
\* polls it scheduled
Quiet == main_queue = <<>> /\ delay_queue = <<>> /\ ~unacked.held

\* one more call of a publisher function
Called == published < MaxPublish /\ Quiet /\ published' = published + 1

\* where the chain of a message put on the main queue begins: a poll that
\* carries attempts 1, or has no counter, begins a chain of polls
ChainOrigin(body) ==
    IF /\ body.json = "object"
       /\ Get(body.d, "acao", JStr(ENVIAR)) = JStr(CONSULTAR)
       /\ Get(body.d, "tentativas", JInt(1)) = JInt(1)
    THEN "poll" ELSE "upstream"

\* what another client puts on the main queue: basic_publish(exchange='',
\* routing_key=MAIN_QUEUE, body)
Upstream(body) ==
    /\ Called
    /\ main_queue' = QueueAfter(main_queue, MAIN_QUEUE,
                                <<BasicPublish("", MAIN_QUEUE, body)>>,
                                ChainOrigin(body), 0)
    /\ publisher' = NoCall
    /\ last' = NoRun
    /\ UNCHANGED <<tb_de_emissao, tb_de_documento, delay_queue, unacked>>
    /\ UNCHANGED aside

\* connection = _get_connection(); channel.queue_declare(queue=MAIN_QUEUE);
\* channel.basic_publish(exchange='', routing_key=MAIN_QUEUE, body);
\* connection.close()
Publicar(body) ==
    << Call("_get_connection"),
       [Call("queue_declare") EXCEPT !.routing_key = MAIN_QUEUE],
       BasicPublish("", MAIN_QUEUE, body),
       Call("connection.close") >>

\* one call of a publisher function: the broker gets the calls it made
Publisher(call) ==
    /\ Called
    /\ publisher' = call
    /\ main_queue' =
          QueueAfter(main_queue, MAIN_QUEUE, call.calls,
                     IF call.op = "processa_consulta" THEN "poll" ELSE "upstream",
                     0)
    /\ last' = NoRun
    /\ UNCHANGED <<tb_de_emissao, tb_de_documento, delay_queue, unacked>>
    /\ UNCHANGED aside

\* src/publisher.py
processa_fatura(id_fatura) ==
    Publisher(PublisherCall("processa_fatura", id_fatura, None, FALSE,
                  Publicar(Body([id_fatura |-> JInt(id_fatura)]))))

\* a poll operation that publishes the last attempt
processa_consulta_LastAttempt(id_fatura) ==
    Publisher(PublisherCall("processa_consulta", id_fatura, None, FALSE,
                  Publicar(Body([id_fatura |-> JInt(id_fatura),
                                 acao |-> JStr(CONSULTAR),
                                 tentativas |-> JInt(MAX_TENTATIVAS_CONSULTA)]))))

processa_consulta(id_fatura) ==
    Publisher(PublisherCall("processa_consulta", id_fatura, None, FALSE,
                  Publicar(Body([id_fatura |-> JInt(id_fatura),
                                 acao |-> JStr(CONSULTAR),
                                 tentativas |-> JInt(1)]))))

MotivoMinimo == 5

\* a cancel operation that publishes whatever the reason
processa_cancelamento_NoCheck(id_fatura, motivo) ==
    Publisher(PublisherCall("processa_cancelamento", id_fatura, motivo, FALSE,
                  Publicar(Body([id_fatura |-> JInt(id_fatura),
                                 acao |-> JStr(CANCELAR),
                                 motivo |-> JStr(motivo)]))))

processa_cancelamento(id_fatura, motivo) ==
    IF motivo = <<>> \/ Len(motivo) < MotivoMinimo
    THEN \* ValueError before the connection is opened
         Publisher(PublisherCall("processa_cancelamento", id_fatura, motivo,
                                 TRUE, <<>>))
    ELSE Publisher(PublisherCall("processa_cancelamento", id_fatura, motivo,
                       FALSE,
                       Publicar(Body([id_fatura |-> JInt(id_fatura),
                                      acao |-> JStr(CANCELAR),
                                      motivo |-> JStr(motivo)]))))

\* reasons the publisher is called with: empty, of 3, 4 and 5 characters
Motivos ==
    { <<>>, <<"f", "o", "o">>, <<"n", "u", "l", "o">>,
      <<"e", "r", "r", "o", "r">> }

\* bodies other publishers may put on the main queue
ForeignBodies ==
    { BodyInvalid,
      BodyOther,
      Body(NoDict),
      Body([acao |-> JInt(5)]),
      Body([id_fatura |-> JInt(0), acao |-> JStr(CANCELAR)]),
      Body([id_fatura |-> JInt(2), acao |-> JNull]),
      Body([id_fatura |-> JInt(1), acao |-> JInt(5)]),
      Body([id_fatura |-> JInt(1), acao |-> JStr(CANCELAR),
            motivo |-> JStr(<<"f", "o", "o">>)]),
      Body([id_fatura |-> JInt(1), acao |-> JStr(<<"f", "o", "o", "b", "a", "r">>)]),
      Body([id_fatura |-> JInt(1), acao |-> JStr(<<"E", "n", "v", "i", "a", "r">>)]),
      Body([id_fatura |-> JInt(1), acao |-> JStr(CONSULTAR)]),
      Body([id_fatura |-> JInt(1), acao |-> JStr(CONSULTAR),
            tentativas |-> JInt(MAX_TENTATIVAS_CONSULTA)]),
      Body([id_fatura |-> JInt(1), acao |-> JStr(CONSULTAR),
            tentativas |-> JStr(<<"3">>)]) }

ForeignPublish == \E body \in ForeignBodies : Upstream(body)

\* the broker hands the head of the main queue to the consumer, which holds
\* at most PREFETCH_COUNT unsettled deliveries
Deliver ==
    /\ main_queue # <<>>
    /\ (IF unacked.held THEN 1 ELSE 0) < PREFETCH_COUNT
    /\ unacked' = [held |-> TRUE, returned |-> FALSE, msg |-> Head(main_queue)]
    /\ main_queue' = Tail(main_queue)
    /\ last' = NoRun
    /\ publisher' = NoCall
    /\ UNCHANGED <<tb_de_emissao, tb_de_documento, delay_queue, published>>
    /\ UNCHANGED aside

\* a delay queue declared without x-message-ttl: nothing ever expires
Expire_NoTTL == FALSE /\ UNCHANGED vars

\* x-message-ttl passes for the head of the delay queue: it is dead-lettered
\* to x-dead-letter-exchange with x-dead-letter-routing-key
Expire ==
    /\ delay_queue # <<>>
    /\ delay_queue' = Tail(delay_queue)
    /\ main_queue' = IF MAIN_QUEUE \in Route(DLX_EXCHANGE, DELAY_ROUTING_KEY)
                     THEN Append(main_queue, Head(delay_queue))
                     ELSE main_queue
    /\ UNCHANGED <<tb_de_emissao, tb_de_documento, unacked, published,
                   publisher, last>>
    /\ UNCHANGED aside

StoreFaults == {"get_tb_de_emissao", "get_tb_de_documento"}
WriteFaults == {"update_tb_de_emissao", "update_tb_de_documento", "basic_publish"}

InputsOf(responses, before) ==
    { Input(r, f) : r \in responses, f \in {"none"} \cup WriteFaults }
        \cup { Input(NoTags, f) : f \in StoreFaults \cup before }

Inputs(body) ==
    LET acao_v == Get(body.d, "acao", JStr(ENVIAR))
        acao == Lower(acao_v.s)
    IN  IF acao = ENVIAR
        THEN InputsOf(SubmitResponses, {"assinar_e_gerar_qr",
                        "preparar_payload_sifen", "enviar_lote_sifen"})
        ELSE IF acao = CONSULTAR
        THEN InputsOf(PollResponses, {"consultar_lote_sifen"})
        ELSE IF acao = CANCELAR
        THEN InputsOf(CancelResponses, {"gerar_evento_assinado_wsdl",
                        "enviar_evento_cancelamento"})
        ELSE InputsOf({NoTags}, {})

\* the state after the calls done of a run: the store after its updates, the
\* queues after its publishes, the delivery after its settlement
Effects(run, done, settled) ==
    LET origin == IF run.handler = "handle_enviar" THEN "submit"
                  ELSE unacked.msg.origin
        hops == IF run.handler = "handle_enviar" THEN 0
                ELSE unacked.msg.hops + 1
        requeued == settled # <<>> /\ settled[1].op = "basic_nack"
                    /\ settled[1].requeue
    IN  /\ tb_de_emissao' = EmissaoAfter(tb_de_emissao, done)
        /\ tb_de_documento' = DocumentoAfter(tb_de_documento, done)
        /\ delay_queue' = QueueAfter(delay_queue, DELAY_QUEUE, done, origin, hops)
        /\ main_queue' =
              QueueAfter(IF requeued THEN <<unacked.msg>> \o main_queue
                         ELSE main_queue,
                         MAIN_QUEUE, done, origin, hops)
        /\ unacked' = IF settled = <<>>
                      THEN [unacked EXCEPT !.returned = TRUE]
                      ELSE NoDelivery
        /\ last' = [msg |-> unacked.msg, handler |-> run.handler,
                    calls |-> run.calls, emissao_antes |-> tb_de_emissao,
                    documento_antes |-> tb_de_documento,
                    main_antes |-> main_queue, main_depois |-> main_queue',
                    delay_depois |-> delay_queue']

Returned(run, done) == Effects(run, done, Settlements(done))

\* one run of the callback on the delivery held, with what SIFEN answers
\* and the call the environment makes fail
OnMessageReceived ==
    /\ unacked.held /\ ~unacked.returned
    /\ \E in \in Inputs(unacked.msg.body) :
         \E run \in { on_message_received(unacked.msg.body, tb_de_emissao,
                                          tb_de_documento, in.retorno, in.fault) } :
            Returned(run, Completed(run.calls))
    /\ UNCHANGED <<published, publisher>>
    /\ UNCHANGED aside

Next ==
    \/ \E id \in {1, 2} : processa_fatura(id)
    \/ \E id \in {1, 3} : processa_consulta(id)
    \/ \E motivo \in Motivos : processa_cancelamento(1, motivo)
    \/ ForeignPublish
    \/ Deliver
    \/ Expire
    \/ OnMessageReceived

Spec == Init /\ [][Next]_vars

\* the broker delivers while the consumer is free, the TTL of a delayed
\* message passes, and the callback runs on what is delivered
Fairness ==
    /\ WF_vars(Deliver)
    /\ WF_vars(Expire)
    /\ WF_vars(OnMessageReceived)

\* the submits and cancellations of the publisher, and the worker
LiveNext ==
    \/ \E id \in {1, 2} : processa_fatura(id)
    \/ \E motivo \in Motivos : processa_cancelamento(1, motivo)
    \/ Deliver
    \/ Expire
    \/ OnMessageReceived

LiveSpec == Init /\ [][LiveNext]_vars /\ Fairness

\* the submits of the publisher and the worker that polls after them
PollNext ==
    \/ \E id \in {1, 2} : processa_fatura(id)
    \/ Deliver
    \/ Expire
    \/ OnMessageReceived

PollSpec == Init /\ [][PollNext]_vars /\ Fairness

\* the store, the broker and the worker, which a SOAP call leaves alone
worker == <<tb_de_emissao, tb_de_documento, main_queue, delay_queue, unacked,
            published, publisher, last>>

\* enviar_lote_sifen, consultar_lote_sifen or enviar_evento_cancelamento
\* calls _make_sifen_request(url, data, cert_path, cert_pass)
MakeSifenRequest ==
    /\ soap.pc \in {"idle", "exit"}
    /\ soap.call < MaxCalls
    /\ soap' = [SoapIdle EXCEPT !.pc = "try", !.call = soap.call + 1,
                                !.files = soap.files]
    /\ UNCHANGED <<worker, crashed, workers, handled, qr>>

\* open(cert_path, 'rb'), pkcs12.load_key_and_certificates, private_bytes,
\* public_bytes: the credentials load, or one of them raises
LoadCertificate ==
    /\ soap.pc = "try"
    /\ \E raises \in {None, <<"FileNotFoundError">>, <<"ValueError">>} :
          soap' = IF raises # None THEN Raise(raises)
                  ELSE [soap EXCEPT !.pc = "cert_file"]
    /\ UNCHANGED <<worker, crashed, workers, handled, qr>>

\* the first context manager of the with statement: the certificate file is
\* created on disk, or its creation raises
CreateCertFile ==
    /\ soap.pc = "cert_file"
    /\ \E raises \in {None, <<"OSError">>} :
          soap' = IF raises # None THEN Raise(raises)
                  ELSE [soap EXCEPT !.pc = "key_file",
                          !.files = @ \cup {TempFile(soap.call, "cert")}]
    /\ UNCHANGED <<worker, crashed, workers, handled, qr>>

\* the second context manager: the key file is created on disk, or its
\* creation raises and the with statement closes the certificate file,
\* which delete=False keeps on disk
CreateKeyFile ==
    /\ soap.pc = "key_file"
    /\ \E raises \in {None, <<"OSError">>} :
          soap' = IF raises # None THEN Raise(raises)
                  ELSE [soap EXCEPT !.pc = "write",
                          !.files = @ \cup {TempFile(soap.call, "key")}]
    /\ UNCHANGED <<worker, crashed, workers, handled, qr>>

\* cert_file.write(cert_pem); key_file.write(key_pem); cert_file_path =
\* cert_file.name; key_file_path = key_file.name; then the with statement
\* closes both files.  A write that raises leaves before the paths are
\* assigned, a close that raises leaves after.
WriteFiles ==
    /\ soap.pc = "write"
    /\ \E fault \in {"none", "cert_file.write", "key_file.write", "close"} :
          soap' =
            IF fault \in {"cert_file.write", "key_file.write"}
            THEN Raise(<<"OSError">>)
            ELSE LET named ==
                       [soap EXCEPT
                          !.cert_file_path = TempFile(soap.call, "cert"),
                          !.key_file_path = TempFile(soap.call, "key")]
                 IN  IF fault = "close"
                     THEN [named EXCEPT !.pc = "finally",
                                        !.raised = <<"OSError">>]
                     ELSE [named EXCEPT !.pc = "post"]
    /\ UNCHANGED <<worker, crashed, workers, handled, qr>>

\* response = requests.post(url, data, headers, cert=(cert_file_path,
\* key_file_path)): a response of SIFEN, or the POST raises
Post ==
    /\ soap.pc = "post"
    /\ \/ soap' = Raise(<<"ConnectionError">>)
       \/ \E status_code \in StatusCodes, text \in ResponseTexts :
             soap' = [soap EXCEPT !.pc = "response",
                                  !.response = Response(status_code, text)]
    /\ UNCHANGED <<worker, crashed, workers, handled, qr>>

\* if not response.ok: if tem_xml_valido: return response_text; else:
\* response.raise_for_status(); return response_text
Respond ==
    /\ soap.pc = "response"
    /\ soap' = IF ~ok(soap.response)
               THEN IF tem_xml_valido(soap.response.text)
                    THEN Return(soap.response.text)
                    ELSE Raise(<<"HTTPError">>)
               ELSE Return(soap.response.text)
    /\ UNCHANGED <<worker, crashed, workers, handled, qr>>

\* finally: if cert_file_path and os.path.exists(cert_file_path):
\* os.unlink(cert_file_path); the same for key_file_path
Finally ==
    /\ soap.pc = "finally"
    /\ soap' = [soap EXCEPT
                  !.pc = "exit",
                  !.files = { f \in @ : ~(\/ /\ soap.cert_file_path # None
                                             /\ f = soap.cert_file_path
                                          \/ /\ soap.key_file_path # None
                                             /\ f = soap.key_file_path) }]
    /\ UNCHANGED <<worker, crashed, workers, handled, qr>>

SoapNext ==
    \/ MakeSifenRequest
    \/ LoadCertificate
    \/ CreateCertFile
    \/ CreateKeyFile
    \/ WriteFiles
    \/ Post
    \/ Respond
    \/ Finally

SoapSpec == Init /\ [][SoapNext]_vars

\* the worker process dies inside handle_enviar, after some of the calls of
\* the run and before it settles the delivery: the broker, which got no ack,
\* puts the message back at the head of the main queue, flagged redelivered
Crash ==
    /\ unacked.held /\ ~unacked.returned
    /\ ~crashed.down
    /\ \E in \in Inputs(unacked.msg.body) :
         \E run \in { on_message_received(unacked.msg.body, tb_de_emissao,
                                          tb_de_documento, in.retorno, in.fault) } :
           \E k \in 0..Len(Completed(run.calls)) :
             \E done \in { SubSeq(Completed(run.calls), 1, k) } :
                /\ run.handler = "handle_enviar"
                /\ Settlements(done) = <<>>
                /\ tb_de_emissao' = EmissaoAfter(tb_de_emissao, done)
                /\ tb_de_documento' = DocumentoAfter(tb_de_documento, done)
                /\ delay_queue' = QueueAfter(delay_queue, DELAY_QUEUE, done,
                                             "submit", 0)
                /\ crashed' = [down |-> TRUE, msg |-> unacked.msg, in |-> in,
                               emissao_antes |-> tb_de_emissao,
                               documento_antes |-> tb_de_documento,
                               delay_antes |-> delay_queue]
    /\ main_queue' = <<[unacked.msg EXCEPT !.origin = "redelivered"]>>
                        \o main_queue
    /\ unacked' = NoDelivery
    /\ last' = NoRun
    /\ UNCHANGED <<published, publisher, soap, workers, handled, qr>>

\* submits, a worker that may die in one of them, and the redelivery; no
\* TTL passes between the death and the redelivery
CrashNext ==
    \/ \E id \in {1, 2} : processa_fatura(id)
    \/ Deliver
    \/ Crash
    \/ OnMessageReceived

CrashSpec == Init /\ [][CrashNext]_vars

\* processa_fatura(id_fatura) called by any client at any time: it connects,
\* publishes the submit message and closes, whatever the worker is doing
Submit(id_fatura) ==
    /\ published < MaxPublish
    /\ published' = published + 1
    /\ main_queue' =
          QueueAfter(main_queue, MAIN_QUEUE,
                     Publicar(Body([id_fatura |-> JInt(id_fatura)])),
                     "upstream", 0)
    /\ UNCHANGED <<tb_de_emissao, tb_de_documento, delay_queue, unacked,
                   publisher, last, soap, crashed, workers, handled, qr>>

\* a poll message put on the main queue by any client at any time: by
\* processa_consulta(id_fatura), which counts attempts from 1, or by another
\* publisher, with the attempts it likes
Consulta(id_fatura, tentativas) ==
    /\ published < MaxPublish
    /\ published' = published + 1
    /\ \E body \in { Body([id_fatura |-> JInt(id_fatura),
                           acao |-> JStr(CONSULTAR),
                           tentativas |-> JInt(tentativas)]) } :
          main_queue' = QueueAfter(main_queue, MAIN_QUEUE, Publicar(body),
                                   ChainOrigin(body), 0)
    /\ UNCHANGED <<tb_de_emissao, tb_de_documento, delay_queue, unacked,
                   publisher, last, soap, crashed, workers, handled, qr>>

\* the message a handler was given is one that a publisher put on the main
\* queue, a submit or a poll, and not a poll that the worker scheduled
BeginsChain(msg, handler) ==
    /\ handler \in {"handle_enviar", "handle_consultar"}
    /\ msg.hops = 0 /\ msg.origin # "submit"

\* the broker hands the head of the main queue to a worker process that
\* holds fewer than PREFETCH_COUNT unsettled deliveries: its callback starts
WorkerDeliver(w) ==
    /\ main_queue # <<>>
    /\ (IF workers[w].held THEN 1 ELSE 0) < PREFETCH_COUNT
    /\ workers' = [workers EXCEPT
                     ![w] = [held |-> TRUE, returned |-> FALSE,
                             msg |-> Head(main_queue)]]
    /\ main_queue' = Tail(main_queue)
    /\ UNCHANGED <<tb_de_emissao, tb_de_documento, delay_queue, unacked,
                   published, publisher, last, soap, crashed, handled, qr>>

\* the callback of worker process w runs to its end on the delivery it
\* holds: its updates reach the store, its publishes the broker
WorkerReturns(w) ==
    /\ workers[w].held /\ ~workers[w].returned
    /\ \E in \in Inputs(workers[w].msg.body) :
         \E run \in { on_message_received(workers[w].msg.body, tb_de_emissao,
                                          tb_de_documento, in.retorno, in.fault) } :
           \E done \in { Completed(run.calls) } :
             LET origin == IF run.handler = "handle_enviar" THEN "submit"
                           ELSE workers[w].msg.origin
                 hops == IF run.handler = "handle_enviar" THEN 0
                         ELSE workers[w].msg.hops + 1
             IN
              /\ tb_de_emissao' = EmissaoAfter(tb_de_emissao, done)
              /\ tb_de_documento' = DocumentoAfter(tb_de_documento, done)
              /\ delay_queue' = QueueAfter(delay_queue, DELAY_QUEUE, done,
                                           origin, hops)
              /\ main_queue' = QueueAfter(main_queue, MAIN_QUEUE, done,
                                          origin, hops)
              /\ workers' = [workers EXCEPT
                               ![w] = IF Settlements(done) = <<>>
                                      THEN [@ EXCEPT !.returned = TRUE]
                                      ELSE NoDelivery]
              /\ handled' = IF BeginsChain(workers[w].msg, run.handler)
                            THEN [handled EXCEPT
                                    ![Get(workers[w].msg.body.d, "id_fatura",
                                          JNull).i] = @ + 1]
                            ELSE handled
    /\ UNCHANGED <<unacked, published, publisher, last, soap, crashed, qr>>

\* several worker processes on the main queue, and clients that submit
MultiNext ==
    \/ \E id \in {1, 2} : Submit(id)
    \/ \E w \in Workers : WorkerDeliver(w)
    \/ \E w \in Workers : WorkerReturns(w)
    \/ Expire

MultiSpec == Init /\ [][MultiNext]_vars

\* assinar_e_gerar_qr signs a document and puts the QR URL in <dCarQR>, or
\* raises ValueError when the signature has no <DigestValue>
GerarQr ==
    \E de \in Documents, digest_value_b64 \in DigestValues, csc \in Cscs,
       csc_id \in {<<"0", "0", "0", "1">>}, URL_SIFEN_QR \in QrBaseUrls :
       /\ qr' = IF ~Truthy(digest_value_b64)
                THEN [NoQr EXCEPT !.raised = TRUE]
                ELSE LET base == url_base_qr(de, digest_value_b64, csc_id)
                         cHashQR == Sha256Hex(string_para_hash(base, csc))
                     IN  [made |-> TRUE, raised |-> FALSE,
                          URL_SIFEN_QR |-> URL_SIFEN_QR, csc |-> csc,
                          dCarQR |-> url_final_qr(URL_SIFEN_QR, base, cHashQR)]
       /\ UNCHANGED <<worker, soap, crashed, workers, handled>>

QrSpec == Init /\ [][GerarQr]_vars

----------------------------------------------------------------------------
(* Properties.  A state predicate about "the run" speaks of the last run   *)
(* of on_message_received (last) and of the tables as that run left them.  *)

\* on_message_received has handled a delivery
Handled == last.calls # <<>>

Raised(calls) == \E i \in DOMAIN calls : calls[i].raises

Ops(calls, op) == SelectSeq(calls, LAMBDA c : c.op = op)

\* the calls of the last run that returned
Done == Completed(last.calls)

\* the id and the attempts counter of the message handled
IdFatura == Get(last.msg.body.d, "id_fatura", JNull).i
Previous == Get(last.msg.body.d, "tentativas", JInt(1))

\* what SIFEN answered to the SOAP call op of the last run
Resposta(op) == IF Ops(Done, op) = <<>> THEN NoTags ELSE Ops(Done, op)[1].ret

PollBody(id_fatura, tentativas) ==
    Body([id_fatura |-> JInt(id_fatura), acao |-> JStr(CONSULTAR),
          tentativas |-> JInt(tentativas)])

InQueue(q, body) == \E i \in DOMAIN q : q[i].body = body

\* C1: every delivery handled by on_message_received, whatever its body, the
\* tables, the SIFEN answer and the call that raised (signer, SOAP, parse,
\* store update, publish), is settled exactly once: one basic_ack or one
\* basic_nack with requeue=False, and the callback never returns with the
\* delivery unsettled.
C1_ExactlyOneSettlement ==
    /\ ~unacked.returned
    /\ Handled =>
         /\ Len(Settlements(last.calls)) = 1
         /\ Len(Settlements(Done)) = 1
         /\ \A i \in DOMAIN last.calls :
              last.calls[i].op = "basic_nack" => ~last.calls[i].requeue

\* a submit whose header update raised after the emission update was made,
\* settled by the one nack
C1_Witness ==
    /\ last.handler = "handle_enviar"
    /\ Ops(Done, "update_tb_de_emissao") # <<>>
    /\ Raised(Ops(last.calls, "update_tb_de_documento"))
    /\ Ops(Done, "basic_nack") # <<>>
    /\ Ops(Done, "basic_ack") = <<>>

\* the submit handler ran to its ack on an answer whose protocol is present
\* and not "0"
SubmitSuccess ==
    /\ last.handler = "handle_enviar"
    /\ ~Raised(last.calls)
    /\ Truthy(FindText(Resposta("enviar_lote_sifen"), "dProtConsLote"))
    /\ FindText(Resposta("enviar_lote_sifen"), "dProtConsLote") # <<"0">>

\* C2: after the submit handler has handled (without an exception) a message
\* whose SIFEN answer carries a protocol present and not "0", the emission
\* record read back holds that protocol, non-empty, and the delay queue
\* holds the poll message {id, consultar, tentativas = 1}.
C2_SubmitStoresProtocolAndSchedulesPoll ==
    SubmitSuccess =>
        /\ get_tb_de_emissao(tb_de_emissao, IdFatura).protocolo
             = FindText(Resposta("enviar_lote_sifen"), "dProtConsLote")
        /\ get_tb_de_emissao(tb_de_emissao, IdFatura).protocolo # <<>>
        /\ InQueue(last.delay_depois, PollBody(IdFatura, 1))

C2_Witness ==
    /\ SubmitSuccess
    /\ InQueue(delay_queue, PollBody(1, 1))
    /\ get_tb_de_emissao(tb_de_emissao, 1).protocolo = <<"4", "7">>

\* C3: every message the poll handler publishes, in the still-pending path
\* and in the 0160 path, goes to the delay queue with attempts = previous + 1,
\* previous being the attempts of the message handled, and only when
\* previous < 10; no message in the delay queue carries attempts > 10.
C3_RescheduleIncrementsBelowLimit ==
    /\ last.handler = "handle_consultar" =>
         \A i \in DOMAIN last.calls :
            last.calls[i].op = "basic_publish" =>
              /\ Previous.t = "int"
              /\ Previous.i < 10
              /\ last.calls[i].body = PollBody(IdFatura, Previous.i + 1)
              /\ Route(last.calls[i].exchange, last.calls[i].routing_key)
                   = {DELAY_QUEUE}
    /\ \A i \in DOMAIN delay_queue :
         /\ delay_queue[i].body.d.tentativas.t = "int"
         /\ delay_queue[i].body.d.tentativas.i <= 10

\* the 0160 path rescheduling the ninth attempt as the tenth
C3_Witness ==
    /\ last.handler = "handle_consultar"
    /\ Previous = JInt(9)
    /\ InQueue(delay_queue, PollBody(IdFatura, 10))
    /\ Ops(Done, "update_tb_de_documento") # <<>>
    /\ Ops(Done, "basic_ack") # <<>>

\* neither approved nor rejected: the states the poll handler tells apart
\* by dEstRes and by the words of the batch message
StillPending(retorno) ==
    LET status == Strip(Or(FindText(retorno, "dEstRes"), <<>>))
        lote == Strip(Or(FindText(retorno, "dMsgResLot"), <<>>))
        res == Strip(Or(FindText(retorno, "dMsgRes"), <<>>))
    IN  /\ status \notin {APROBADO, RECHAZADO}
        /\ \A word \in {"Cancelado", "Rechazado"} :
              ~Contains(lote, word) /\ ~Contains(res, word)

\* the poll handler ran without an exception on a message with attempts = 10
\* and a still-pending answer
LastAttemptPending ==
    /\ last.handler = "handle_consultar"
    /\ ~Raised(last.calls)
    /\ Previous = JInt(10)
    /\ StillPending(Resposta("consultar_lote_sifen"))

\* C4: when the poll handler handles a message with attempts = 10 and the
\* SIFEN answer is still pending, the emission record gets cod_status "998",
\* the header 998, nothing is published and the message is acked.
C4_GiveUpAtLimit ==
    LastAttemptPending =>
        /\ get_tb_de_emissao(tb_de_emissao, IdFatura).cod_status
             = <<"9", "9", "8">>
        /\ get_tb_de_documento(tb_de_documento, IdFatura).cod_status = 998
        /\ Ops(last.calls, "basic_publish") = <<>>
        /\ last.delay_depois = <<>>
        /\ Ops(Done, "basic_ack") # <<>>

\* the tenth poll of a chain a submit started, still in processing
C4_Witness ==
    /\ LastAttemptPending
    /\ last.msg.origin = "submit"
    /\ last.msg.hops = 9
    /\ FindText(Resposta("consultar_lote_sifen"), "dCodResLot")
         = <<"0", "3", "6", "1">>

\* the messages in the queues and the one the consumer holds
InFlight ==
    { main_queue[i] : i \in DOMAIN main_queue }
        \cup { delay_queue[i] : i \in DOMAIN delay_queue }
        \cup (IF unacked.held THEN {unacked.msg} ELSE {})

\* the poll messages of a chain a submit started; hops counts the polls of
\* the chain handled before the message was published
Chain == { e \in InFlight : e.origin = "submit" }

ChainBounded ==
    /\ \A e \in Chain :
         /\ e.hops + 1 <= 10
         /\ \E id \in {1, 2, 3} : e.body = PollBody(id, e.hops + 1)
    /\ Cardinality(Chain) <= 1
    /\ Handled => Len(Ops(last.calls, "basic_publish")) <= 1

\* C5: the chain of polls one successful submit starts is bounded and ends:
\* its messages carry attempts 1..10, the n-th one attempts = n, so at most
\* 10 are handled; a handled message publishes at most one successor; and
\* a chain in flight leads to no poll message of it left in the delay queue,
\* the main queue or the consumer's hands.
C5_PollChainBoundedAndTerminates ==
    /\ []ChainBounded
    /\ (Chain # {}) ~> (Chain = {})

\* the tenth poll of a chain was handled and no message of the chain is left
C5_Witness ==
    /\ last.handler = "handle_consultar"
    /\ last.msg.origin = "submit"
    /\ last.msg.hops = 9
    /\ Previous = JInt(10)
    /\ Chain = {}
    /\ Ops(Done, "basic_ack") # <<>>

\* header codes of a settled document: approved, rejected, gave up, cancelled
TerminalDocumento == {201, 260, 300, 301, 998, 600}

\* C6: once the header's cod_status is terminal (approved, rejected, 998 gave
\* up, 600 cancelled), no run of a handler for that document sets it back to
\* the non-terminal 900.
C6_TerminalNeverBackToSent ==
    Handled =>
        \A d \in DOMAIN tb_de_documento :
            last.documento_antes[d].cod_status \in TerminalDocumento
                => tb_de_documento[d].cod_status # 900

\* the columns of tb_de_emissao the updates of the last run that returned
\* have written for document id_docfis
WrittenEmissao(id_docfis) ==
    UNION { DOMAIN Done[i].kw :
              i \in { j \in DOMAIN Done : /\ Done[j].op = "update_tb_de_emissao"
                                          /\ Done[j].id = id_docfis } }

WrittenDocumento(id_docfis) ==
    UNION { ({"cod_status"} \cap (IF Done[i].cod # NoInt THEN {"cod_status"} ELSE {}))
              \cup (IF Done[i].desc # None THEN {"desc_status"} ELSE {}) :
              i \in { j \in DOMAIN Done : /\ Done[j].op = "update_tb_de_documento"
                                          /\ Done[j].id = id_docfis } }

\* the tables differ from what they were before the run only in columns an
\* update call that returned has written
OnlyCompletedWrites ==
    /\ \A pk \in DOMAIN tb_de_emissao : \A f \in DOMAIN tb_de_emissao[pk] :
          tb_de_emissao[pk][f] # last.emissao_antes[pk][f]
              => f \in WrittenEmissao(tb_de_emissao[pk].id_docfis)
    /\ \A d \in DOMAIN tb_de_documento : \A f \in DOMAIN tb_de_documento[d] :
          tb_de_documento[d][f] # last.documento_antes[d][f]
              => f \in WrittenDocumento(d)

Unmodified ==
    /\ tb_de_emissao = last.emissao_antes
    /\ tb_de_documento = last.documento_antes

NothingPublished ==
    /\ Ops(Done, "basic_publish") = <<>>
    /\ last.main_depois = last.main_antes
    /\ last.delay_depois = <<>>

NackedWithoutRequeue ==
    /\ Ops(Done, "basic_nack") # <<>>
    /\ \A i \in DOMAIN last.calls :
          last.calls[i].op = "basic_nack" => ~last.calls[i].requeue
    /\ Ops(Done, "basic_ack") = <<>>

\* signing, payload preparation, the SOAP calls, parsing the SIFEN answer
BeforeAnyWrite ==
    {"assinar_e_gerar_qr", "preparar_payload_sifen", "enviar_lote_sifen",
     "consultar_lote_sifen", "gerar_evento_assinado_wsdl",
     "enviar_evento_cancelamento", "etree.fromstring"}

\* C7 as stated: whenever an exception is raised inside a handler the broker
\* sees a nack with requeue=False and the records differ only in columns
\* written by updates that completed; when it comes from signing, payload
\* preparation, the SOAP call or parsing the answer, neither record is
\* modified and nothing is published.
C7_AnyHandlerExceptionNacks ==
    (last.handler # "" /\ Raised(last.calls)) =>
        /\ NackedWithoutRequeue
        /\ OnlyCompletedWrites
        /\ (\E i \in DOMAIN last.calls :
               last.calls[i].raises /\ last.calls[i].op \in BeforeAnyWrite)
             => Unmodified /\ NothingPublished

\* the cancel handler caught the exception of parsing the SIFEN answer
CaughtParse ==
    /\ last.handler = "handle_cancelar"
    /\ \E i \in DOMAIN last.calls :
          last.calls[i].raises /\ last.calls[i].caught

\* C7 amended: whenever an exception raised inside a handler reaches the
\* handler's except clause, the broker sees a nack with requeue=False and
\* the records differ only in columns written by updates that completed;
\* when it comes from signing, payload preparation, the SOAP call or parsing
\* the answer, neither record is modified and nothing is published.  The
\* exception of parsing the answer in the cancel handler does not reach the
\* except clause: the handler records ERRO_PARSE on the emission record,
\* leaves the header as it was, publishes nothing and acks.
C7_EscapedExceptionNacks ==
    /\ (last.handler # "" /\ \E i \in DOMAIN last.calls : Escapes(last.calls[i])) =>
          /\ NackedWithoutRequeue
          /\ OnlyCompletedWrites
          /\ (\E i \in DOMAIN last.calls :
                 Escapes(last.calls[i]) /\ last.calls[i].op \in BeforeAnyWrite)
               => Unmodified /\ NothingPublished
    /\ (CaughtParse /\ \A i \in DOMAIN last.calls : ~Escapes(last.calls[i])) =>
          /\ Ops(Done, "basic_ack") # <<>>
          /\ Ops(Done, "basic_nack") = <<>>
          /\ get_tb_de_emissao(tb_de_emissao, IdFatura).cod_status
               = <<"ERRO_PARSE">>
          /\ tb_de_documento = last.documento_antes
          /\ NothingPublished

\* the poll handler wrote the emission record, the header update raised, and
\* the message was nacked with the emission record changed and the header not
C7_Witness ==
    /\ last.handler = "handle_consultar"
    /\ Ops(Done, "update_tb_de_emissao") # <<>>
    /\ Raised(Ops(last.calls, "update_tb_de_documento"))
    /\ Ops(Done, "basic_nack") # <<>>
    /\ tb_de_emissao # last.emissao_antes
    /\ tb_de_documento = last.documento_antes

\* C8: the worker never puts a message back on the main queue itself: no
\* nack carries requeue=True, and every message it publishes is a poll
\* message sent through the default exchange to the delay queue, so a run
\* leaves the main queue as it found it.
C8_NoRequeueOnlyDelayedPolls ==
    Handled =>
        /\ \A i \in DOMAIN last.calls :
              last.calls[i].op = "basic_nack" => ~last.calls[i].requeue
        /\ \A i \in DOMAIN last.calls :
              last.calls[i].op = "basic_publish" =>
                 /\ Route(last.calls[i].exchange, last.calls[i].routing_key)
                      = {DELAY_QUEUE}
                 /\ last.calls[i].exchange # DLX_EXCHANGE
                 /\ Get(last.calls[i].body.d, "acao", JNull) = JStr(CONSULTAR)
        /\ last.main_depois = last.main_antes

\* a poll was rescheduled to the delay queue and the run then nacked
C8_Witness ==
    /\ Ops(Done, "basic_publish") # <<>>
    /\ Ops(Done, "basic_nack") # <<>>
    /\ last.delay_depois # <<>>
    /\ last.main_depois = <<>>

\* the calls of the last run that read or write the store, call SIFEN or
\* publish
StoreReads == {"get_tb_de_emissao", "get_tb_de_documento"}
StoreWrites == {"update_tb_de_emissao", "update_tb_de_documento"}
SifenCalls ==
    {"enviar_lote_sifen", "consultar_lote_sifen", "enviar_evento_cancelamento"}

AckedAndDropped(allowed) ==
    /\ Ops(Done, "basic_ack") # <<>>
    /\ Ops(Done, "basic_nack") = <<>>
    /\ \A i \in DOMAIN last.calls :
          last.calls[i].op \notin
              (StoreReads \cup StoreWrites \cup SifenCalls \cup {"basic_publish"})
                  \ allowed
    /\ Unmodified
    /\ NothingPublished

\* C9: a delivered message whose JSON object has no id_fatura, whatever its
\* other fields, is acked and dropped: no store read or write, no SIFEN call
\* and no publish.
C9_NoIdAckedAndDropped ==
    (/\ Handled
     /\ last.msg.body.json = "object"
     /\ "id_fatura" \notin DOMAIN last.msg.body.d)
        => AckedAndDropped({})

\* C10: a delivered message with an id whose emission row or header row does
\* not exist is acked and dropped: no handler runs, no store write, no SIFEN
\* call and no publish.
C10_MissingRowAckedAndDropped ==
    (/\ Handled
     /\ last.msg.body.json = "object"
     /\ JTruthy(Get(last.msg.body.d, "id_fatura", JNull))
     /\ \A i \in DOMAIN last.calls :
            last.calls[i].raises => last.calls[i].op \notin StoreReads
     /\ \/ get_tb_de_emissao(last.emissao_antes, IdFatura) = NoRow
        \/ get_tb_de_documento(last.documento_antes, IdFatura) = NoRow)
        => last.handler = "" /\ AckedAndDropped(StoreReads)

\* the message handled names a document whose emission row and header row
\* both exist, and both were read
ExistingDocument ==
    /\ Handled
    /\ last.msg.body.json = "object"
    /\ JTruthy(Get(last.msg.body.d, "id_fatura", JNull))
    /\ \A i \in DOMAIN last.calls :
          last.calls[i].raises => last.calls[i].op \notin StoreReads
    /\ get_tb_de_emissao(last.emissao_antes, IdFatura) # NoRow
    /\ get_tb_de_documento(last.documento_antes, IdFatura) # NoRow

\* the action of the message handled is one the dispatcher routes, in any
\* letter case
KnownAction ==
    LET acao == Get(last.msg.body.d, "acao", JStr(ENVIAR)) IN
    acao.t = "str" /\ Lower(acao.s) \in {ENVIAR, CONSULTAR, CANCELAR}

\* C11: a delivered message for an existing document whose action is none of
\* enviar / consultar / cancelar is acked by the dispatcher and nothing else
\* happens: no handler, no store write, no publish, no SIFEN call.
C11_UnknownActionAcked ==
    (ExistingDocument /\ ~KnownAction)
        => last.handler = "" /\ AckedAndDropped(StoreReads)

\* the unknown action "foobar" for document 1: read, acked, dropped
C11_Witness ==
    /\ ExistingDocument
    /\ Get(last.msg.body.d, "acao", JNull) = JStr(<<"f", "o", "o", "b", "a", "r">>)
    /\ last.handler = ""
    /\ AckedAndDropped(StoreReads)

\* the submit handler ran to its ack on an answer whose protocol is absent,
\* empty or "0"
SubmitFailure ==
    /\ last.handler = "handle_enviar"
    /\ ~Raised(last.calls)
    /\ \/ ~Truthy(FindText(Resposta("enviar_lote_sifen"), "dProtConsLote"))
       \/ FindText(Resposta("enviar_lote_sifen"), "dProtConsLote") = <<"0">>

\* C12: after the submit handler has handled (without an exception) a message
\* whose SIFEN answer has no protocol or protocol "0", the emission record
\* holds the answer, cod_status = dCodRes (or "999" when there is none) and
\* desc_status = "Falha no envio: " + dMsgRes (or its default); the header
\* holds the same description and the code as an integer; the protocol column
\* is not written; no message is published; the message is acked.
C12_SubmitFailurePersistsError ==
    SubmitFailure =>
        LET retorno == Resposta("enviar_lote_sifen")
            codigo == Or(FindText(retorno, "dCodRes"), <<"9", "9", "9">>)
            desc == <<"Falha no envio: ">>
                      \o Or(FindText(retorno, "dMsgRes"), <<"Erro não especificado">>)
            emissao == get_tb_de_emissao(tb_de_emissao, IdFatura)
            documento == get_tb_de_documento(tb_de_documento, IdFatura)
        IN  /\ emissao.xml_retorno = retorno
            /\ emissao.cod_status = codigo
            /\ emissao.desc_status = desc
            /\ documento.desc_status = desc
            /\ IsDigit(codigo) => documento.cod_status = ToInt(codigo)
            /\ "protocolo" \notin WrittenEmissao(IdFatura)
            /\ emissao.protocolo
                 = get_tb_de_emissao(last.emissao_antes, IdFatura).protocolo
            /\ NothingPublished
            /\ Ops(Done, "basic_ack") # <<>>
            /\ Ops(Done, "basic_nack") = <<>>

\* protocol "0" with dCodRes 160 "bad signature": code "160" on the emission
\* record, 160 on the header, no delay message
C12_Witness ==
    /\ SubmitFailure
    /\ FindText(Resposta("enviar_lote_sifen"), "dProtConsLote") = <<"0">>
    /\ get_tb_de_emissao(tb_de_emissao, 1).cod_status = <<"1", "6", "0">>
    /\ get_tb_de_emissao(tb_de_emissao, 1).desc_status
         = <<"Falha no envio: ", "bad", " ", "signature">>
    /\ get_tb_de_documento(tb_de_documento, 1).cod_status = 160
    /\ delay_queue = <<>>

\* the poll handler ran without an exception on an answer with code "0160"
\* whose message is exactly "XML Mal Formado."
Pending0160 ==
    LET retorno == Resposta("consultar_lote_sifen")
        codigo == Strip(Or(Or(FindText(retorno, "dCodRes"),
                              FindText(retorno, "dCodResLot")), <<>>))
        lote == Strip(Or(FindText(retorno, "dMsgResLot"), <<>>))
        res == Strip(Or(FindText(retorno, "dMsgRes"), <<>>))
    IN  /\ last.handler = "handle_consultar"
        /\ ~Raised(last.calls)
        /\ codigo = <<"0", "1", "6", "0">>
        /\ (IF lote = <<>> THEN res ELSE lote) = <<"XML Mal Formado.">>

\* C13: a poll answer with code "0160" and message exactly "XML Mal Formado."
\* is handled as still pending, never as a rejection: with attempts < 10 both
\* records get status 900 ("Reprocessando consulta") and exactly one message,
\* the poll with attempts + 1, goes to the delay queue; with attempts = 10
\* both records get 998 and nothing is published; the message is acked.
C13_MalFormadoIsPending ==
    Pending0160 =>
        LET emissao == get_tb_de_emissao(tb_de_emissao, IdFatura)
            documento == get_tb_de_documento(tb_de_documento, IdFatura)
        IN  /\ Ops(Done, "basic_ack") # <<>>
            /\ Ops(Done, "basic_nack") = <<>>
            /\ Previous.i < 10 =>
                 /\ emissao.cod_status = <<"9", "0", "0">>
                 /\ emissao.desc_status = <<"Reprocessando consulta">>
                 /\ documento.cod_status = 900
                 /\ Len(Ops(Done, "basic_publish")) = 1
                 /\ last.delay_depois
                      = <<Entry(PollBody(IdFatura, Previous.i + 1),
                                last.msg.origin, last.msg.hops + 1)>>
                 /\ last.main_depois = last.main_antes
            /\ Previous.i = 10 =>
                 /\ emissao.cod_status = <<"9", "9", "8">>
                 /\ documento.cod_status = 998
                 /\ NothingPublished

\* the third poll answered 0160 "XML Mal Formado.": 900 on both records and
\* the fourth poll in the delay queue
C13_Witness ==
    /\ Pending0160
    /\ Previous = JInt(3)
    /\ get_tb_de_emissao(tb_de_emissao, 1).cod_status = <<"9", "0", "0">>
    /\ get_tb_de_documento(tb_de_documento, 1).cod_status = 900
    /\ InQueue(delay_queue, PollBody(1, 4))

\* the poll handler ran without an exception on an answer whose dEstRes is
\* "Aprobado" (the 0160 special case comes first)
PollApproved ==
    /\ last.handler = "handle_consultar"
    /\ ~Raised(last.calls)
    /\ ~Pending0160
    /\ Strip(Or(FindText(Resposta("consultar_lote_sifen"), "dEstRes"), <<>>))
         = <<"Aprobado">>

\* C14: after the poll handler has handled an answer with dEstRes = "Aprobado",
\* the emission record holds the answer and cod_status = dCodRes when the
\* answer carries one, otherwise exactly "0201"; the header holds the same
\* code as an integer; nothing is published; the message is acked.
C14_ApprovedStoresCode ==
    PollApproved =>
        LET retorno == Resposta("consultar_lote_sifen")
            codigo == IF FindText(retorno, "dCodRes") # None
                      THEN FindText(retorno, "dCodRes")
                      ELSE <<"0", "2", "0", "1">>
            emissao == get_tb_de_emissao(tb_de_emissao, IdFatura)
            documento == get_tb_de_documento(tb_de_documento, IdFatura)
        IN  /\ emissao.xml_retorno = retorno
            /\ emissao.cod_status = codigo
            /\ IsDigit(codigo) => documento.cod_status = ToInt(codigo)
            /\ FindText(retorno, "dCodRes") = None => documento.cod_status = 201
            /\ NothingPublished
            /\ Ops(Done, "basic_ack") # <<>>
            /\ Ops(Done, "basic_nack") = <<>>

\* approved without dCodRes: "0201" on the emission record, 201 on the header
C14_Witness ==
    /\ PollApproved
    /\ FindText(Resposta("consultar_lote_sifen"), "dCodRes") = None
    /\ get_tb_de_emissao(tb_de_emissao, 1).cod_status = <<"0", "2", "0", "1">>
    /\ get_tb_de_documento(tb_de_documento, 1).cod_status = 201
    /\ delay_queue = <<>>

\* the message of a poll answer as the handler reads it: the batch message,
\* or the response message when the batch message is empty
PollMessage(retorno) ==
    LET lote == Strip(Or(FindText(retorno, "dMsgResLot"), <<>>))
        res == Strip(Or(FindText(retorno, "dMsgRes"), <<>>))
    IN  IF lote = <<>> THEN res ELSE lote

\* the poll handler ran without an exception on an answer that is not
\* approved and whose dEstRes is "Rechazado" or whose message holds the word
\* "Cancelado" or "Rechazado"
PollRejected ==
    LET retorno == Resposta("consultar_lote_sifen")
        status == Strip(Or(FindText(retorno, "dEstRes"), <<>>))
        msg == PollMessage(retorno)
    IN  /\ last.handler = "handle_consultar"
        /\ ~Raised(last.calls)
        /\ ~Pending0160
        /\ status # <<"Aprobado">>
        /\ \/ status = <<"Rechazado">>
           \/ \E i \in DOMAIN msg : msg[i] \in {"Cancelado", "Rechazado"}

\* C15: after the poll handler has handled an answer that is not approved and
\* has dEstRes = "Rechazado" or a message containing "Cancelado" or
\* "Rechazado", the emission record holds the answer, the rejection code
\* (dCodRes, else dCodResLot, else "0300") and "Rejeitado: " + message; the
\* header holds the same description and the code as an integer; nothing is
\* published; the message is acked.
C15_RejectedStoresCode ==
    PollRejected =>
        LET retorno == Resposta("consultar_lote_sifen")
            codigo == Or(Or(FindText(retorno, "dCodRes"),
                            FindText(retorno, "dCodResLot")),
                         <<"0", "3", "0", "0">>)
            desc == <<"Rejeitado: ">>
                      \o Or(PollMessage(retorno), <<"Motivo não especificado.">>)
            emissao == get_tb_de_emissao(tb_de_emissao, IdFatura)
            documento == get_tb_de_documento(tb_de_documento, IdFatura)
        IN  /\ emissao.xml_retorno = retorno
            /\ emissao.cod_status = codigo
            /\ emissao.desc_status = desc
            /\ documento.desc_status = desc
            /\ IsDigit(codigo) => documento.cod_status = ToInt(codigo)
            /\ NothingPublished
            /\ Ops(Done, "basic_ack") # <<>>
            /\ Ops(Done, "basic_nack") = <<>>

\* the batch message "Lote Cancelado" without a code: "0300" on the emission
\* record, 300 on the header
C15_Witness ==
    /\ PollRejected
    /\ FindText(Resposta("consultar_lote_sifen"), "dEstRes") = None
    /\ get_tb_de_emissao(tb_de_emissao, 1).cod_status = <<"0", "3", "0", "0">>
    /\ get_tb_de_emissao(tb_de_emissao, 1).desc_status
         = <<"Rejeitado: ", "Lote", " ", "Cancelado">>
    /\ get_tb_de_documento(tb_de_documento, 1).cod_status = 300
    /\ delay_queue = <<>>

\* the cancel handler ran on a document whose stored xml_assinado is empty,
\* does not parse, or holds no DE element with an Id
CancelWithoutCdc ==
    LET xml == get_tb_de_emissao(last.emissao_antes, IdFatura).xml_assinado IN
    /\ last.handler = "handle_cancelar"
    /\ IF xml.kind = "empty" \/ "de_id" \notin DOMAIN xml THEN TRUE
       ELSE xml.de_id \in {None, <<>>}

\* C16: when the cancel handler cannot extract a CDC from the stored
\* xml_assinado, it nacks without requeue, builds no event, sends nothing to
\* SIFEN, writes nothing to either record and publishes nothing.
C16_NoCdcNacks ==
    CancelWithoutCdc =>
        /\ NackedWithoutRequeue
        /\ \A i \in DOMAIN last.calls :
              last.calls[i].op \notin
                  SifenCalls \cup StoreWrites \cup {"gerar_evento_assinado_wsdl"}
        /\ Unmodified
        /\ NothingPublished

\* a cancel for document 1 before any submit stored a signed XML
C16_Witness ==
    /\ CancelWithoutCdc
    /\ IdFatura = 1
    /\ get_tb_de_emissao(tb_de_emissao, 1).xml_assinado = EmptyDoc
    /\ Ops(Done, "basic_nack") # <<>>

\* the cancel handler ran without an exception on a SIFEN answer that parses
CancelParsed ==
    /\ last.handler = "handle_cancelar"
    /\ ~Raised(last.calls)
    /\ Ops(Done, "enviar_evento_cancelamento") # <<>>
    /\ Resposta("enviar_evento_cancelamento").wellformed

\* the event the last run sent to SIFEN
EventoEnviado == Ops(Done, "enviar_evento_cancelamento")[1].kw.xml_conteudo

\* C17: for every parsed cancel answer the emission record holds the cancel
\* request sent, the answer and its dCodRes, and the message is acked; when
\* dCodRes is "0500", "0501" or "0600", or dEstRes = "Aprobado", the header
\* gets code 600 and "Nota Cancelada"; otherwise the emission record gets an
\* error description and the header is left as it was.
C17_CancelOutcomePersisted ==
    CancelParsed =>
        LET retorno == Resposta("enviar_evento_cancelamento")
            msg == Or(FindText(retorno, "dMsgRes"), <<"Sem mensagem">>)
            emissao == get_tb_de_emissao(tb_de_emissao, IdFatura)
            documento == get_tb_de_documento(tb_de_documento, IdFatura)
        IN  /\ emissao.xml_cancelamento_envio = EventoEnviado
            /\ EventoEnviado.rEve_id = <<"1">>
            /\ EventoEnviado.cdc
                 = get_tb_de_emissao(last.emissao_antes, IdFatura).xml_assinado.de_id
            /\ emissao.xml_cancelamento_retorno = retorno
            /\ emissao.cod_status = OrEmpty(FindText(retorno, "dCodRes"))
            /\ Ops(Done, "basic_ack") # <<>>
            /\ Ops(Done, "basic_nack") = <<>>
            /\ NothingPublished
            /\ IF \/ FindText(retorno, "dCodRes")
                       \in { <<"0", "5", "0", "0">>, <<"0", "5", "0", "1">>,
                             <<"0", "6", "0", "0">> }
                  \/ FindText(retorno, "dEstRes") = <<"Aprobado">>
               THEN /\ documento.cod_status = 600
                    /\ documento.desc_status = <<"Nota Cancelada">>
               ELSE /\ emissao.desc_status = <<"Erro no cancelamento: ">> \o msg
                    /\ tb_de_documento = last.documento_antes

\* the answer dCodRes 0501: "0501" on the emission record, 600 "Nota
\* Cancelada" on the header, the signed event stored
C17_Witness ==
    /\ CancelParsed
    /\ FindText(Resposta("enviar_evento_cancelamento"), "dEstRes") = None
    /\ get_tb_de_emissao(tb_de_emissao, 1).cod_status = <<"0", "5", "0", "1">>
    /\ get_tb_de_emissao(tb_de_emissao, 1).xml_cancelamento_envio.cdc = CDC
    /\ get_tb_de_documento(tb_de_documento, 1).cod_status = 600
    /\ get_tb_de_documento(tb_de_documento, 1).desc_status = <<"Nota Cancelada">>

\* the reason of the cancel message handled is missing or has fewer than 5
\* characters
ShortReason ==
    /\ last.handler = "handle_cancelar"
    /\ \/ "motivo" \notin DOMAIN last.msg.body.d
       \/ /\ last.msg.body.d.motivo.t = "str"
          /\ Len(last.msg.body.d.motivo.s) < 5

\* C18: for a cancel message whose reason is missing or shorter than 5
\* characters the cancel handler builds no cancellation event and sends none
\* to SIFEN.
C18_ShortReasonNeverSent ==
    ShortReason =>
        \A i \in DOMAIN last.calls :
            last.calls[i].op \notin
                {"gerar_evento_assinado_wsdl", "enviar_evento_cancelamento"}

\* the publisher's cancel operation was the last publisher call
CancelRequested == publisher.op = "processa_cancelamento"

\* C19: the publisher's cancel operation called with a reason that is empty
\* or shorter than 5 characters raises ValueError before any broker activity:
\* no connection, no queue declared, no message published; called with a
\* reason of 5 characters or more it publishes exactly one message, persistent,
\* through the default exchange to the main queue, whose body is
\* {id_fatura, acao "cancelar", motivo}.
C19_PublisherValidatesReason ==
    CancelRequested =>
        IF Len(publisher.motivo) < 5
        THEN /\ publisher.raises
             /\ publisher.calls = <<>>
             /\ main_queue = <<>>
        ELSE LET sent == Ops(publisher.calls, "basic_publish")
                 body == Body([id_fatura |-> JInt(publisher.id_fatura),
                               acao |-> JStr(<<"c", "a", "n", "c", "e", "l", "a", "r">>),
                               motivo |-> JStr(publisher.motivo)])
             IN  /\ ~publisher.raises
                 /\ Len(sent) = 1
                 /\ sent[1].persistent
                 /\ sent[1].exchange = ""
                 /\ sent[1].routing_key = "faturas_para_processar"
                 /\ sent[1].body = body
                 /\ Len(main_queue) = 1
                 /\ main_queue[1].body = body
                 /\ delay_queue = <<>>

\* a reason of 4 characters was refused after an earlier call had been made:
\* nothing reached the broker
C19_Witness ==
    /\ CancelRequested
    /\ Len(publisher.motivo) = 4
    /\ publisher.raises
    /\ main_queue = <<>>
    /\ published = 2

\* the publisher's poll operation was the last publisher call
PollRequested == publisher.op = "processa_consulta"

\* the poll messages of a chain that began with a poll carrying attempts 1
FreshChain == { e \in InFlight : e.origin = "poll" }

\* C20: the publisher's poll operation publishes exactly one message, through
\* the default exchange to the main queue, the poll {id, "consultar",
\* tentativas = 1}, whatever attempts earlier polls of that document reached;
\* the chain it starts is a fresh one: its n-th message carries attempts = n,
\* and n never exceeds 10.
C20_PublisherPollRestartsChain ==
    /\ PollRequested =>
         LET sent == Ops(publisher.calls, "basic_publish") IN
         /\ ~publisher.raises
         /\ Len(sent) = 1
         /\ sent[1].exchange = ""
         /\ sent[1].routing_key = "faturas_para_processar"
         /\ sent[1].body = PollBody(publisher.id_fatura, 1)
         /\ main_queue = <<Entry(PollBody(publisher.id_fatura, 1), "poll", 0)>>
         /\ delay_queue = <<>>
    /\ \A e \in FreshChain :
         /\ Get(e.body.d, "tentativas", JInt(1)) = JInt(e.hops + 1)
         /\ e.hops + 1 <= 10

\* an earlier chain of polls for document 1 gave up at attempts 10 (998 on
\* the header), and the poll the publisher then put on the main queue carries
\* attempts 1
C20_Witness ==
    /\ PollRequested
    /\ publisher.id_fatura = 1
    /\ get_tb_de_documento(tb_de_documento, 1).cod_status = 998
    /\ main_queue # <<>>
    /\ main_queue[1].body.d.tentativas = JInt(1)

\* the SOAP call of the last run returned a text that parses
Answered(op) ==
    /\ Ops(Done, op) # <<>>
    /\ Ops(Done, op)[1].ret.wellformed

\* the answer of the last run is a business rejection: a submit without
\* protocol (or protocol "0"), a poll that is rejected, a cancellation that
\* is not approved
Rejection ==
    \/ /\ last.handler = "handle_enviar"
       /\ Answered("enviar_lote_sifen")
       /\ \/ ~Truthy(FindText(Resposta("enviar_lote_sifen"), "dProtConsLote"))
          \/ FindText(Resposta("enviar_lote_sifen"), "dProtConsLote") = <<"0">>
    \/ LET retorno == Resposta("consultar_lote_sifen")
           status == Strip(Or(FindText(retorno, "dEstRes"), <<>>))
           codigo == Strip(Or(Or(FindText(retorno, "dCodRes"),
                                 FindText(retorno, "dCodResLot")), <<>>))
           msg == PollMessage(retorno)
       IN  /\ last.handler = "handle_consultar"
           /\ Answered("consultar_lote_sifen")
           /\ ~(codigo = <<"0", "1", "6", "0">> /\ msg = <<"XML Mal Formado.">>)
           /\ status # <<"Aprobado">>
           /\ \/ status = <<"Rechazado">>
              \/ \E i \in DOMAIN msg : msg[i] \in {"Cancelado", "Rechazado"}
    \/ LET retorno == Resposta("enviar_evento_cancelamento") IN
       /\ last.handler = "handle_cancelar"
       /\ Answered("enviar_evento_cancelamento")
       /\ FindText(retorno, "dCodRes")
            \notin { <<"0", "5", "0", "0">>, <<"0", "5", "0", "1">>,
                     <<"0", "6", "0", "0">> }
       /\ FindText(retorno, "dEstRes") # <<"Aprobado">>

\* no store update of the last run raised
WritesSucceed ==
    \A i \in DOMAIN last.calls :
        last.calls[i].raises => last.calls[i].op \notin StoreWrites

\* C21: a SIFEN business rejection is never turned into an exception: when
\* the SOAP answer parses and carries a rejection (submit without protocol,
\* poll rejected, cancellation not approved) and the store updates succeed,
\* no call of the handler raises, the answer is stored on the emission
\* record, and the message is acked, never nacked.
C21_RejectionIsNotAnException ==
    (Rejection /\ WritesSucceed) =>
        /\ ~Raised(last.calls)
        /\ Ops(Done, "basic_ack") # <<>>
        /\ Ops(last.calls, "basic_nack") = <<>>
        /\ LET emissao == get_tb_de_emissao(tb_de_emissao, IdFatura) IN
           IF last.handler = "handle_cancelar"
           THEN emissao.xml_cancelamento_retorno
                  = Resposta("enviar_evento_cancelamento")
           ELSE emissao.xml_retorno
                  = Resposta(IF last.handler = "handle_enviar"
                             THEN "enviar_lote_sifen"
                             ELSE "consultar_lote_sifen")

\* a cancellation SIFEN refused (dCodRes 4002): stored on the emission
\* record and acked
C21_Witness ==
    /\ Rejection
    /\ WritesSucceed
    /\ last.handler = "handle_cancelar"
    /\ get_tb_de_emissao(tb_de_emissao, 1).cod_status = <<"4", "0", "0", "2">>
    /\ Ops(Done, "basic_ack") # <<>>

\* a protocol SIFEN issued: a non-empty text other than "0"
IssuedProtocol(p) == Truthy(p) /\ p # <<"0">>

\* C26: the column protocolo is written only by the success path of the
\* submit handler, with the non-empty protocol of the SIFEN answer (never
\* "0"); no other run (submit failure, poll, cancel, dispatcher) writes or
\* clears it.  Every row starts with an empty protocol, so a row whose
\* protocol is not empty holds a protocol SIFEN issued to a submit.
C26_ProtocolOnlyFromSubmitSuccess ==
    /\ \A pk \in DOMAIN tb_de_emissao :
          tb_de_emissao[pk].protocolo # None
              => IssuedProtocol(tb_de_emissao[pk].protocolo)
    /\ Handled =>
         \A pk \in DOMAIN tb_de_emissao :
            (\/ tb_de_emissao[pk].protocolo # last.emissao_antes[pk].protocolo
             \/ "protocolo" \in WrittenEmissao(tb_de_emissao[pk].id_docfis)) =>
                /\ last.handler = "handle_enviar"
                /\ Answered("enviar_lote_sifen")
                /\ IssuedProtocol(FindText(Resposta("enviar_lote_sifen"),
                                           "dProtConsLote"))
                /\ tb_de_emissao[pk].protocolo
                     = FindText(Resposta("enviar_lote_sifen"), "dProtConsLote")

\* document 1 holds protocol 47 from an earlier submit, and the last run, a
\* cancellation, wrote the emission record and left the protocol alone
C26_Witness ==
    /\ last.handler = "handle_cancelar"
    /\ Ops(Done, "update_tb_de_emissao") # <<>>
    /\ get_tb_de_emissao(tb_de_emissao, 1).protocolo = <<"4", "7">>
    /\ get_tb_de_emissao(last.emissao_antes, 1).protocolo = <<"4", "7">>

\* C27: the poll handler queries SIFEN only for a document whose stored
\* protocol is not empty, whether the poll message was scheduled by the
\* worker or published by the publisher's poll operation.
C27_PollRequiresProtocol ==
    (last.handler = "handle_consultar" /\ last.msg.origin \in {"submit", "poll"}) =>
        \A i \in DOMAIN last.calls :
            last.calls[i].op = "consultar_lote_sifen" =>
                /\ last.calls[i].kw.protocolo # <<>>
                /\ get_tb_de_emissao(last.emissao_antes, IdFatura).protocolo # <<>>

\* the primary keys of the emission rows of document id_docfis
RowsOf(id_docfis) ==
    { pk \in DOMAIN tb_de_emissao : tb_de_emissao[pk].id_docfis = id_docfis }

\* C29: for every id, get_tb_de_emissao returns the row with the largest
\* primary key among the emission rows sharing that id_docfis (NULL text
\* columns read back as ''), and None when no row has that id.
C29_LoadsNewestEmission ==
    \A id_docfis \in 0..4 :
        LET row == get_tb_de_emissao(tb_de_emissao, id_docfis) IN
        IF RowsOf(id_docfis) = {} THEN row = NoRow
        ELSE /\ row # NoRow
             /\ row.id \in RowsOf(id_docfis)
             /\ \A pk \in RowsOf(id_docfis) : pk <= row.id
             /\ \A f \in DOMAIN row :
                   IF f \in {"cod_status", "desc_status", "protocolo"}
                   THEN row[f] = IF tb_de_emissao[row.id][f] = None THEN <<>>
                                 ELSE tb_de_emissao[row.id][f]
                   ELSE row[f] = tb_de_emissao[row.id][f]

\* the dispatcher loaded document 1, which has two emission rows with
\* different XML, and the submit handler signed the XML of the newer one
C29_Witness ==
    /\ last.handler = "handle_enviar"
    /\ IdFatura = 1
    /\ Cardinality(RowsOf(1)) = 2
    /\ tb_de_emissao[1].xml # tb_de_emissao[2].xml
    /\ get_tb_de_emissao(tb_de_emissao, 1).id = 2
    /\ Ops(Done, "update_tb_de_emissao") # <<>>
    /\ Ops(Done, "update_tb_de_emissao")[1].kw.xml_assinado.de_id
         = tb_de_emissao[2].xml.de_id

\* C30: an emission update changes only the row get_tb_de_emissao returns
\* for the id (the one with the largest primary key): every other row, the
\* older rows sharing the id_docfis included, is as it was before the run.
C30_UpdateIsSingleRow ==
    Handled =>
        \A pk \in DOMAIN tb_de_emissao :
            tb_de_emissao[pk] # last.emissao_antes[pk]
                => pk = get_tb_de_emissao(tb_de_emissao,
                                          tb_de_emissao[pk].id_docfis).id

\* the poll messages the worker schedules in the chain of a submit of
\* document 1: the n-th carries attempts n
Delayed ==
    { Entry(PollBody(1, n), "submit", n - 1) : n \in 1..MAX_TENTATIVAS_CONSULTA }

\* how often message e occurs in queue q
Copies(q, e) == Cardinality({ i \in DOMAIN q : q[i] = e })

\* a message leaves the delay queue only as its head, dead-lettered to the
\* tail of the main queue, and the consumer gets nothing by that step
OnlyDeadLettered ==
    Len(delay_queue') < Len(delay_queue) =>
        /\ delay_queue' = Tail(delay_queue)
        /\ main_queue' = Append(main_queue, Head(delay_queue))
        /\ unacked' = unacked

\* what the consumer is handed is the head of the main queue, a message
\* leaves the main queue only by being handed to the consumer, and what the
\* consumer has settled is in no queue again
OnlyFromMainQueue ==
    /\ (~unacked.held /\ unacked'.held) =>
          /\ main_queue # <<>>
          /\ unacked'.msg = Head(main_queue)
          /\ main_queue' = Tail(main_queue)
          /\ delay_queue' = delay_queue
    /\ Len(main_queue') < Len(main_queue) =>
          /\ main_queue' = Tail(main_queue)
          /\ unacked' = [held |-> TRUE, returned |-> FALSE,
                         msg |-> Head(main_queue)]
    /\ (unacked.held /\ ~unacked'.held) =>
          /\ Copies(main_queue', unacked.msg) = 0
          /\ Copies(delay_queue', unacked.msg) = 0

\* C28: a message published to the delay queue is never consumed from the
\* delay queue: it leaves it only by dead-lettering, through the DLX and the
\* delay routing key, to the tail of the main queue; it leaves the main
\* queue only as the delivery handed to the consumer, body (id, consultar,
\* tentativas) unchanged; there is one copy of it at most; and the queues
\* always drain, so that the message, first in first out, is eventually
\* handed to the consumer.
C28_DelayedIsDeadLetteredAndDelivered ==
    /\ [][OnlyDeadLettered /\ OnlyFromMainQueue]_vars
    /\ [](\A e \in Delayed :
            Copies(main_queue, e) + Copies(delay_queue, e)
                + (IF unacked.held /\ unacked.msg = e THEN 1 ELSE 0) <= 1)
    /\ (delay_queue # <<>> \/ main_queue # <<>>)
          ~> (delay_queue = <<>> /\ main_queue = <<>>)

\* the consumer holds the third poll of the chain, which the worker had
\* published to the delay queue
C28_Witness ==
    /\ unacked.held
    /\ unacked.msg = Entry(PollBody(1, 3), "submit", 2)
    /\ delay_queue = <<>>
    /\ main_queue = <<>>

\* the call of _make_sifen_request has exited, by return or by exception
Exited == soap.pc = "exit"

\* the temporary files the call in progress has created
TempFiles == {TempFile(soap.call, "cert"), TempFile(soap.call, "key")}

\* C22: once a call of _make_sifen_request has exited, by whatever path
\* (return, HTTP error, credentials that do not load, a temporary file that
\* cannot be created or written, a POST that fails), neither the temporary
\* key file nor the temporary certificate file it created is on disk.
C22_TempFilesRemoved == Exited => soap.files \cap TempFiles = {}

\* the paths on which the files are removed: every exit after the paths
\* have been assigned
C22_RemovedOnceNamed ==
    (Exited /\ soap.cert_file_path # None) => soap.files \cap TempFiles = {}

\* C23: of a response received, a 2xx body is returned; a non-2xx body with
\* an XML root marker is returned and nothing is raised; a non-2xx body
\* without a marker raises and nothing is returned.
C23_ResponseHandling ==
    (Exited /\ soap.response # NoResponse) =>
        LET status == soap.response.status_code
            text == soap.response.text
            is2xx == 200 <= status /\ status < 300
        IN  /\ is2xx => soap.returned = text /\ soap.raised = None
            /\ (~is2xx /\ tem_xml_valido(text)) =>
                  soap.returned = text /\ soap.raised = None
            /\ (~is2xx /\ ~tem_xml_valido(text)) =>
                  soap.raised # None /\ soap.returned = None

\* the same with "error status" (400..599) in the place of "non-2xx"
C23_ErrorStatusHandling ==
    (Exited /\ soap.response # NoResponse) =>
        LET text == soap.response.text
        IN  IF ok(soap.response) \/ tem_xml_valido(text)
            THEN soap.returned = text /\ soap.raised = None
            ELSE soap.raised = <<"HTTPError">> /\ soap.returned = None

\* the handling of the redelivered submit message has ended on a settlement
Redelivered ==
    /\ crashed.down
    /\ Handled
    /\ last.msg.origin = "redelivered"
    /\ Settlements(Done) # <<>>

\* the poll messages in a queue, as a set
Polls(q) == { q[i].body : i \in DOMAIN q }

\* the state is the one a single handling of the message, with the answer
\* and the fault in, reaches from the state before the crash
SameAsOnce(in) ==
    \E once \in { on_message_received(crashed.msg.body, crashed.emissao_antes,
                      crashed.documento_antes, in.retorno, in.fault) } :
       \E done \in { Completed(once.calls) } :
          /\ tb_de_emissao = EmissaoAfter(crashed.emissao_antes, done)
          /\ tb_de_documento = DocumentoAfter(crashed.documento_antes, done)
          /\ Polls(delay_queue) =
                Polls(QueueAfter(crashed.delay_antes, DELAY_QUEUE, done,
                                 "submit", 0))

\* C24: after a crash at any point inside handle_enviar and the redelivery
\* of the same submit message, the emission rows, the header rows and the
\* set of poll messages in the delay queue are those that some single
\* handling of the message reaches.
C24_RedeliveryEquivalentToOnce ==
    Redelivered => \E in \in Inputs(crashed.msg.body) : SameAsOnce(in)

\* the same when SIFEN and the store behave in the second handling as they
\* did in the first
C24_SameAnswerEquivalentToOnce ==
    (/\ Redelivered
     /\ last.calls = on_message_received(crashed.msg.body, crashed.emissao_antes,
                        crashed.documento_antes, crashed.in.retorno,
                        crashed.in.fault).calls)
        => SameAsOnce(crashed.in)

\* worker process w is inside handle_enviar for the document id_docfis
Submitting(w, id_docfis) ==
    /\ workers[w].held /\ ~workers[w].returned
    /\ Get(workers[w].msg.body.d, "id_fatura", JNull) = JInt(id_docfis)
    /\ on_message_received(workers[w].msg.body, tb_de_emissao, tb_de_documento,
                           NoTags, "none").handler = "handle_enviar"

\* C25: with any number of worker processes on the main queue, prefetch 1
\* each, no two executions of handle_enviar overlap for one FiscalDocumentId,
\* whatever upstream publishes.
C25_NoOverlappingSubmit ==
    \A id_docfis \in {1, 2} : \A w1, w2 \in Workers :
        (Submitting(w1, id_docfis) /\ Submitting(w2, id_docfis)) => w1 = w2

\* where the tail "&cHashQR=<suffix>" of the URL in <dCarQR> begins
TailAt ==
    CHOOSE k \in DOMAIN qr.dCarQR :
        /\ qr.dCarQR[k] = "&cHashQR="
        /\ \A j \in DOMAIN qr.dCarQR : qr.dCarQR[j] = "&cHashQR=" => j <= k

\* the URL without its tail, and the suffix of the tail
WithoutTail == SubSeq(qr.dCarQR, 1, TailAt - 1)
Suffix == SubSeq(qr.dCarQR, TailAt + 1, Len(qr.dCarQR))

\* the URL without its tail and without the configured QR base URL before it
BaseQuery == SubSeq(WithoutTail, Len(qr.URL_SIFEN_QR) + 1, Len(WithoutTail))

\* C31 as stated: the digest of (the produced URL minus its "&cHashQR="
\* tail) + the stripped CSC is the suffix.
C31_HashOfUrlWithoutTail ==
    qr.made => Sha256Hex(WithoutTail \o Strip(qr.csc)) = Suffix

\* C31: the produced URL begins with the configured QR base URL, and the
\* digest of (the URL minus that base URL and minus its "&cHashQR=" tail) +
\* the stripped CSC is the suffix.
C31_HashOfBaseQuery ==
    qr.made =>
        /\ SubSeq(WithoutTail, 1, Len(qr.URL_SIFEN_QR)) = qr.URL_SIFEN_QR
        /\ Sha256Hex(BaseQuery \o Strip(qr.csc)) = Suffix

\* a URL made with a base URL and a CSC that has white space around it
C31_Witness ==
    /\ qr.made
    /\ qr.URL_SIFEN_QR = <<"https://ekuatia.set.gov.py/consultas/qr?">>
    /\ qr.csc = <<" ", "A", "B", "C", " ">>
    /\ Suffix # <<>>

\* the poll handler got an answer that parses and acked the message
PollAcked ==
    /\ Handled
    /\ last.handler = "handle_consultar"
    /\ Answered("consultar_lote_sifen")
    /\ Ops(Done, "basic_ack") # <<>>

\* every emission row of the document holds the answer of the last poll
HoldsLastResponse ==
    \A pk \in RowsOf(IdFatura) :
        tb_de_emissao[pk].xml_retorno = Resposta("consultar_lote_sifen")

\* C32: after every poll message the poll handler acks, xml_retorno of the
\* emission record is the raw SIFEN answer of that poll, in the approved,
\* rejected, 0160, gave-up and still-pending-rescheduled paths alike.
C32_LastResponseStored == PollAcked => HoldsLastResponse

\* the same on every path other than the reschedule of a still-pending poll
C32_StoredUnlessRescheduled ==
    (/\ PollAcked
     /\ ~(/\ Ops(Done, "basic_publish") # <<>>
          /\ Ops(Done, "update_tb_de_emissao") = <<>>))
        => HoldsLastResponse

\* the emission record of the document is at status "900"
At900(id_docfis) ==
    get_tb_de_emissao(tb_de_emissao, id_docfis).cod_status = CODIGO_STATUS_ENVIADO

\* e is a poll message for the document
IsPollFor(e, id_docfis) ==
    /\ e.body.json = "object"
    /\ Get(e.body.d, "id_fatura", JNull) = JInt(id_docfis)
    /\ Get(e.body.d, "acao", JStr(ENVIAR)) = JStr(CONSULTAR)

\* a poll message for the document is queued or being handled
PollQueued(id_docfis) ==
    \/ \E i \in DOMAIN main_queue : IsPollFor(main_queue[i], id_docfis)
    \/ \E i \in DOMAIN delay_queue : IsPollFor(delay_queue[i], id_docfis)
    \/ unacked.held /\ IsPollFor(unacked.msg, id_docfis)

\* no call of the run raised: SOAP calls answered with a text that parses,
\* store updates and publishes went through
NoFailure == Handled => ~Raised(last.calls)

\* C33: once a successful submit has left a document at status "900" with
\* its poll scheduled, if no later SOAP call, store update or publish fails
\* and the broker delivers fairly, the document eventually has a status
\* other than "900" and no poll message for it is queued: from such a state
\* the worker reaches either that outcome or a run in which a call failed.
C33_LeavesStatus900 ==
    \A id_docfis \in {1, 2} :
        (At900(id_docfis) /\ PollQueued(id_docfis))
            ~> \/ ~At900(id_docfis) /\ ~PollQueued(id_docfis)
               \/ ~NoFailure

\* the tenth poll of document 1 was still pending: the document left "900"
\* for "998" and no poll is queued
C33_Witness ==
    /\ Handled /\ ~Raised(last.calls)
    /\ last.handler = "handle_consultar"
    /\ IdFatura = 1 /\ Previous = JInt(MAX_TENTATIVAS_CONSULTA)
    /\ get_tb_de_emissao(last.emissao_antes, 1).cod_status = CODIGO_STATUS_ENVIADO
    /\ get_tb_de_emissao(tb_de_emissao, 1).cod_status
          = CODIGO_STATUS_EXCEDEU_TENTATIVAS
    /\ ~PollQueued(1)

\* an action word in lower, capitalised and upper case
Cased(lower, first, upper) ==
    { lower, <<first>> \o Tail(lower), upper }

EnviarForms ==
    Cased(ENVIAR, "E", <<"E", "N", "V", "I", "A", "R">>)
ConsultarForms ==
    Cased(CONSULTAR, "C", <<"C", "O", "N", "S", "U", "L", "T", "A", "R">>)
CancelarForms ==
    Cased(CANCELAR, "C", <<"C", "A", "N", "C", "E", "L", "A", "R">>)

\* the calls that only the submit, the poll and the cancel handler make
HandlerCalls ==
    [handle_enviar |-> {"assinar_e_gerar_qr", "preparar_payload_sifen",
                        "enviar_lote_sifen"},
     handle_consultar |-> {"consultar_lote_sifen"},
     handle_cancelar |-> {"gerar_evento_assinado_wsdl",
                          "enviar_evento_cancelamento"}]

\* the run went to the handler named and made no call of another handler
RoutedTo(run, handler) ==
    /\ run.handler = handler
    /\ \A i \in DOMAIN run.calls :
          \A other \in DOMAIN HandlerCalls \ {handler} :
              run.calls[i].op \notin HandlerCalls[other]

\* the handler the action of a message asks for
HandlerOf(dados) ==
    IF "acao" \notin DOMAIN dados \/ dados.acao.s \in EnviarForms
    THEN "handle_enviar"
    ELSE IF dados.acao.s \in ConsultarForms THEN "handle_consultar"
    ELSE "handle_cancelar"

\* a message for document 1 with the action given
WithAction(acao) == Body([id_fatura |-> JInt(1), acao |-> JStr(acao)])

\* C34: for an existing document, a message whose action is enviar,
\* consultar or cancelar in any letter case goes to the submit, the poll or
\* the cancel handler and to no other, and a message without an action
\* field goes to the submit handler: so for the message handled, and so,
\* before anything is published, for each of the three words in lower,
\* capitalised and upper case.
C34_RoutedByLowercasedAction ==
    /\ (/\ ExistingDocument
        /\ LET dados == last.msg.body.d IN
           "acao" \in DOMAIN dados =>
              /\ dados.acao.t = "str"
              /\ dados.acao.s \in EnviarForms \cup ConsultarForms \cup CancelarForms)
          => RoutedTo(last, HandlerOf(last.msg.body.d))
    /\ published = 0 =>
       \A acao \in EnviarForms \cup ConsultarForms \cup CancelarForms :
          RoutedTo(on_message_received(WithAction(acao), tb_de_emissao,
                                       tb_de_documento, NoTags, "none"),
                   HandlerOf(WithAction(acao).d))

\* the message {id_fatura: 1, acao: "Enviar"} went to the submit handler
C34_Witness ==
    /\ ExistingDocument
    /\ last.msg.body = WithAction(<<"E", "n", "v", "i", "a", "r">>)
    /\ last.handler = "handle_enviar"
    /\ Ops(Done, "enviar_lote_sifen") # <<>>

\* a message without an action field went to the submit handler
C34_WitnessNoAction ==
    /\ ExistingDocument
    /\ "acao" \notin DOMAIN last.msg.body.d
    /\ last.handler = "handle_enviar"

\* the poll handler handled, without an exception, an answer with dEstRes =
\* "Aprobado"
AnsweredAprobado ==
    /\ Handled
    /\ last.handler = "handle_consultar"
    /\ ~Raised(last.calls)
    /\ FindText(Resposta("consultar_lote_sifen"), "dEstRes") = <<"Aprobado">>

\* code 0160 with the message "XML Mal Formado." in the answer
Is0160 ==
    /\ FindText(Resposta("consultar_lote_sifen"), "dCodRes")
          = <<"0", "1", "6", "0">>
    /\ <<"XML Mal Formado.">> \in
          { Strip(FindText(Resposta("consultar_lote_sifen"), "dMsgResLot")),
            Strip(FindText(Resposta("consultar_lote_sifen"), "dMsgRes")) }

\* the words of the messages of the answer
Words ==
    LET retorno == Resposta("consultar_lote_sifen") IN
    { retorno[tag][i] : <<tag, i>> \in
        { <<t, j>> \in {"dMsgResLot", "dMsgRes"} \X (1..8) :
            retorno[t] # None /\ j \in DOMAIN retorno[t] } }

\* C35: the poll handler looks for 0160 "XML Mal Formado." first, then for
\* approved, then for rejected, then takes the answer as pending: an answer
\* with dEstRes = "Aprobado" whose message contains "Rechazado" or
\* "Cancelado" is stored as approved, and an answer with dEstRes =
\* "Aprobado", code 0160 and message "XML Mal Formado." is handled as
\* pending (900 and a reschedule, or 998 at the limit), never as approved.
C35_ClassificationPriority ==
    AnsweredAprobado =>
        LET emissao == get_tb_de_emissao(tb_de_emissao, IdFatura) IN
        IF Is0160
        THEN /\ emissao.desc_status # <<"Aprobado exitosamente.">>
             /\ emissao.cod_status
                  = (IF Previous.i < MAX_TENTATIVAS_CONSULTA
                     THEN <<"9", "0", "0">> ELSE <<"9", "9", "8">>)
             /\ Previous.i < MAX_TENTATIVAS_CONSULTA =>
                   InQueue(last.delay_depois, PollBody(IdFatura, Previous.i + 1))
        ELSE /\ emissao.desc_status = <<"Aprobado exitosamente.">>
             /\ emissao.cod_status
                  = FindTextDefault(Resposta("consultar_lote_sifen"), "dCodRes",
                                    <<"0", "2", "0", "1">>)
             /\ NothingPublished

\* approved although the message says "Rechazado"
C35_Witness ==
    /\ AnsweredAprobado /\ ~Is0160
    /\ "Rechazado" \in Words
    /\ get_tb_de_emissao(tb_de_emissao, IdFatura).desc_status
          = <<"Aprobado exitosamente.">>

\* dEstRes = "Aprobado" with 0160 "XML Mal Formado.": rescheduled
C35_Witness0160 ==
    /\ AnsweredAprobado /\ Is0160
    /\ get_tb_de_emissao(tb_de_emissao, IdFatura).cod_status = <<"9", "0", "0">>
    /\ delay_queue # <<>>

\* the calls of a run that change the store or the broker's queues
Effectful == StoreWrites \cup {"basic_publish"}

\* when the last run acked, the ack is the last call it made, and every
\* store update and publish of the run came before it
AckIsLast ==
    (Handled /\ Ops(Done, "basic_ack") # <<>>) =>
        /\ Done[Len(Done)].op = "basic_ack"
        /\ Len(Ops(Done, "basic_ack")) = 1
        /\ \A i, j \in DOMAIN Done :
              (Done[i].op \in Effectful /\ Done[j].op = "basic_ack") => i < j
        /\ \A i \in DOMAIN last.calls :
              last.calls[i].op = "basic_ack" =>
                 \A j \in DOMAIN last.calls :
                    last.calls[j].op \in Effectful => j < i

\* C36: on every path of every handler that ends in an ack, the ack is the
\* last effect: the store updates and the delay-queue publish of the run
\* all come before basic_ack, after which the run makes no call; so when the
\* broker, at the ack, is free to deliver the next message, no update or
\* publish of this one is outstanding.
C36_AckIsLastEffect ==
    /\ AckIsLast
    /\ (unacked.held /\ ~unacked.returned) => ~Handled

\* a submit that updated both records, published the poll and then acked
C36_Witness ==
    /\ Handled
    /\ last.handler = "handle_enviar"
    /\ Len(Done) >= 4
    /\ Done[Len(Done)].op = "basic_ack"
    /\ Done[Len(Done) - 1].op = "basic_publish"
    /\ Done[Len(Done) - 2].op = "update_tb_de_documento"
    /\ Done[Len(Done) - 3].op = "update_tb_de_emissao"

\* the last run ended in a nack
Nacked == Handled /\ Ops(Done, "basic_nack") # <<>>

\* C37: a run that ends in a nack has published no poll message to the delay
\* queue, so a nacked message is never retried.
C37_NackedPublishedNothing ==
    Nacked => Ops(Done, "basic_publish") = <<>>

\* a nacked submit has published nothing: its publish is the last call
\* before the ack
C37_NackedSubmitPublishedNothing ==
    (Nacked /\ last.handler = "handle_enviar") => Ops(Done, "basic_publish") = <<>>

\* the polls of a chain that are followed call by call: the first MaxHops
\* of them
MaxHops == 2

\* the callback of worker process w starts on the delivery it holds: it reads
\* the rows of the document, and what SIFEN and the store will answer it
\* fixes the calls it is going to make on the store and on the broker
WorkerReads(w) ==
    /\ workers[w].held /\ ~workers[w].returned
    /\ "calls" \notin DOMAIN workers[w]
    /\ \E in \in Inputs(workers[w].msg.body) :
         \E run \in { on_message_received(workers[w].msg.body, tb_de_emissao,
                                          tb_de_documento, in.retorno, in.fault) } :
           \E done \in { SelectSeq(Completed(run.calls), LAMBDA c :
                              c.op \in StoreWrites \cup
                                 {"basic_publish", "basic_ack", "basic_nack"}) } :
              workers' = [workers EXCEPT
                 ![w] = [held |-> TRUE, returned |-> done = <<>>,
                         msg |-> workers[w].msg,
                         handler |-> run.handler,
                         emissao |-> get_tb_de_emissao(tb_de_emissao,
                                        Get(workers[w].msg.body.d, "id_fatura",
                                            JInt(0)).i),
                         settles |-> Settlements(done) # <<>>,
                         calls |-> done]]
    /\ UNCHANGED <<tb_de_emissao, tb_de_documento, main_queue, delay_queue,
                   unacked, published, publisher, last, soap, crashed,
                   handled, qr>>

\* the callback of worker process w makes its next call: an update reaches
\* the store (the connection is autocommit), a publish the broker, and the
\* settlement frees the worker for its next delivery
WorkerCalls(w) ==
    /\ workers[w].held /\ ~workers[w].returned
    /\ "calls" \in DOMAIN workers[w]
    /\ LET call == <<Head(workers[w].calls)>>
           origin == IF workers[w].handler = "handle_enviar" THEN "submit"
                     ELSE workers[w].msg.origin
           hops == IF workers[w].handler = "handle_enviar" THEN 0
                   ELSE workers[w].msg.hops + 1
       IN
        /\ tb_de_emissao' = EmissaoAfter(tb_de_emissao, call)
        /\ tb_de_documento' = DocumentoAfter(tb_de_documento, call)
        /\ delay_queue' = QueueAfter(delay_queue, DELAY_QUEUE, call, origin, hops)
        /\ main_queue' = QueueAfter(main_queue, MAIN_QUEUE, call, origin, hops)
        /\ workers' = [workers EXCEPT
                         ![w] = IF Tail(workers[w].calls) # <<>>
                                THEN [@ EXCEPT !.calls = Tail(@)]
                                ELSE IF workers[w].settles THEN NoDelivery
                                ELSE [held |-> TRUE, returned |-> TRUE,
                                      msg |-> workers[w].msg]]
    /\ UNCHANGED <<unacked, published, publisher, last, soap, crashed,
                   handled, qr>>

\* several worker processes whose callbacks interleave call by call, clients
\* that submit one document, and a delay TTL that may pass at any moment for the first
\* MaxHops polls of a chain
StepNext ==
    \/ Submit(1)
    \/ \E w \in Workers : WorkerDeliver(w)
    \/ \E w \in Workers : WorkerReads(w)
    \/ \E w \in Workers : WorkerCalls(w)
    \/ (delay_queue # <<>> /\ Head(delay_queue).hops < MaxHops) /\ Expire

StepSpec == Init /\ [][StepNext]_vars

\* worker processes whose callbacks run one at a time, clients that submit
\* one document and ask for a poll of it, at its first attempt or at its
\* last, and a delay TTL that passes for the polls of a chain before its
\* MaxHops-th
ChainNext ==
    \/ Submit(1)
    \/ \E tentativas \in {1, MAX_TENTATIVAS_CONSULTA} : Consulta(1, tentativas)
    \/ \E w \in Workers : WorkerDeliver(w)
    \/ \E w \in Workers : WorkerReturns(w)
    \/ (delay_queue # <<>> /\ Head(delay_queue).hops + 1 < MaxHops) /\ Expire

ChainSpec == Init /\ [][ChainNext]_vars

\* worker w is inside handle_consultar on a poll that the submit success
\* path scheduled, or on one of that poll's successors
PollingScheduled(w) ==
    /\ workers[w].held
    /\ "calls" \in DOMAIN workers[w]
    /\ workers[w].handler = "handle_consultar"
    /\ workers[w].msg.origin = "submit"

\* C38: the submit success path commits the protocol to the emission record
\* before it publishes the first poll, so every poll the worker scheduled
\* (attempts 1 and its successors) is handled against a stored protocol
\* that is not empty, however the workers interleave and whenever the delay
\* TTL passes.
C38_PollHasStoredProtocol ==
    \A w \in Workers :
        PollingScheduled(w) =>
            /\ Truthy(workers[w].emissao.protocolo)
            /\ \A pk \in DOMAIN tb_de_emissao :
                  tb_de_emissao[pk].id_docfis = workers[w].emissao.id_docfis
                     => Truthy(tb_de_emissao[pk].protocolo)

\* one worker is still inside a submit while the other already handles a
\* successor of the poll that an earlier submit scheduled
C38_Witness ==
    \E w, v \in Workers :
        /\ PollingScheduled(w)
        /\ workers[w].msg.hops >= 1
        /\ workers[v].held /\ "calls" \in DOMAIN workers[v]
        /\ workers[v].handler = "handle_enviar"
        /\ workers[v].emissao.id_docfis = workers[w].emissao.id_docfis

\* a poll message for the document that the worker scheduled: the poll of a
\* submit, or the successor of any poll
Scheduled(e, id_docfis) ==
    IsPollFor(e, id_docfis) /\ (e.origin = "submit" \/ e.hops >= 1)

\* the scheduled polls of the document in flight: in the delay queue, in the
\* main queue, or in the hands of a worker
ScheduledInFlight(id_docfis) ==
    Len(SelectSeq(delay_queue, LAMBDA e : Scheduled(e, id_docfis)))
      + Len(SelectSeq(main_queue, LAMBDA e : Scheduled(e, id_docfis)))
      + Cardinality({w \in Workers :
                        workers[w].held /\ Scheduled(workers[w].msg, id_docfis)})

\* the run is on a path that leaves the document at the status a poll is
\* awaited in: the submit success path, the 0160 reschedule, or the
\* still-pending reschedule, which makes no update
AwaitsPoll(run) ==
    /\ run.handler \in {"handle_enviar", "handle_consultar"}
    /\ \A i \in DOMAIN run.calls :
          run.calls[i].op = "update_tb_de_emissao"
             => /\ "cod_status" \in DOMAIN run.calls[i].kw
                /\ run.calls[i].kw.cod_status = CODIGO_STATUS_ENVIADO

\* whatever SIFEN and the store answer, the run a worker is about to make
\* publishes at most one message, and none outside the paths that await a
\* poll
OnePublishAtMost ==
    \A w \in Workers :
        (workers[w].held /\ ~workers[w].returned) =>
            \A in \in Inputs(workers[w].msg.body) :
                \A run \in { on_message_received(workers[w].msg.body,
                                tb_de_emissao, tb_de_documento,
                                in.retorno, in.fault) } :
                    /\ Len(Ops(run.calls, "basic_publish")) <= 1
                    /\ ~AwaitsPoll(run) => Ops(run.calls, "basic_publish") = <<>>

CancelUnparsed ==
    /\ last.handler = "handle_cancelar"
    /\ \E i \in DOMAIN last.calls :
          last.calls[i].op = "etree.fromstring" /\ last.calls[i].raises
    /\ \A i \in DOMAIN last.calls :
          last.calls[i].raises => last.calls[i].op = "etree.fromstring"

\* C40: when the cancel response cannot be parsed as XML, the cancel handler
\* does not nack: it records the cancel request and the raw response on the
\* emission record with status code "ERRO_PARSE" and an error description,
\* leaves the header unchanged, never marks the document cancelled (600),
\* and acks.
C40_UnparsedCancelRecordedAndAcked ==
    CancelUnparsed =>
        \E i \in DOMAIN Done :
            /\ Done[i].op = "enviar_evento_cancelamento"
            /\ Ops(Done, "basic_nack") = <<>>
            /\ Done[Len(Done)].op = "basic_ack"
            /\ Ops(Done, "update_tb_de_documento") = <<>>
            /\ tb_de_documento = last.documento_antes
            /\ Len(Ops(Done, "update_tb_de_emissao")) = 1
            /\ \E row \in { get_tb_de_emissao(tb_de_emissao, IdFatura) } :
                  /\ row.cod_status = <<"ERRO_PARSE">>
                  /\ row.desc_status = <<"Erro no cancelamento: ",
                                         "Erro ao ler XML de retorno">>
                  /\ row.xml_cancelamento_envio = Done[i].kw.xml_conteudo
                  /\ row.xml_cancelamento_retorno = Done[i].ret
                  /\ ~Done[i].ret.wellformed

\* a cancel of a document whose answer was no XML, with the header as it was
C40_Witness ==
    /\ CancelUnparsed
    /\ Ops(Done, "basic_ack") # <<>>
    /\ get_tb_de_emissao(tb_de_emissao, IdFatura).cod_status = <<"ERRO_PARSE">>
    /\ get_tb_de_emissao(last.emissao_antes, IdFatura).cod_status
          # <<"ERRO_PARSE">>
    /\ tb_de_documento[IdFatura].cod_status # ToInt(CODIGO_STATUS_CANCELADO)

====
